---- MODULE Spec2Model ----
(***************************************************************************)
(* State-machine model of the user API (santiagoRuiz1314/user_api_project) *)
(* at the level of its use cases, the Security Gate, the JWT handler, the  *)
(* password hasher and the Mongo-backed repository.                        *)
(*                                                                         *)
(* Representation choices                                                  *)
(*  - a Python str that the code inspects character by character (emails)  *)
(*    is a sequence of one-character strings;                              *)
(*  - a password is a run-length sequence <<<<char, count>>, ...>>, so that *)
(*    lengths up to 129 stay small while len(), strip() and the 72-byte    *)
(*    prefix bcrypt works on are computed exactly (ASCII passwords);       *)
(*  - Optional[X] is a set with at most one element, None being {};        *)
(*  - a user id is a natural number in generation order (uuid4 values are  *)
(*    fresh), 0 standing for the empty / blank id string;                  *)
(*  - time is an integer number of minutes.                                *)
(***************************************************************************)
EXTENDS Integers, Sequences, FiniteSets, TLC

\* ------------------------------------------------------------------ bounds
\* identities generated during a run
MaxUsers == 2
\* tokens remembered as issued during a run
MaxTokens == 1
\* last clock value
MaxTime == 59
\* clock granularity of the request-level specification
TickStep == 30
\* distinct bcrypt salts
MaxSalt == 1
\* last clock value of the token specification
MaxClock == 33
\* the read operations: repositories of every mix up to MaxListed
\* identities, a repository of ManyUsers, and pages of PageSize
MaxListed == 3
\* minutes between two requests of a session
SessionStep == 10
\* requests that get as far as waiting for the database
MaxRequests == 4
ManyUsers == 25
PageSize == 20

\* ------------------------------------------------------- program constants
JWT_EXPIRATION_TIME_MINUTES == 30
MIN_PASSWORD_LEN == 6
MAX_PASSWORD_LEN == 128
BCRYPT_MAX_BYTES == 72
JWT_SECRET_KEY == "server-secret"
JWT_ALGORITHM == "HS256"
\* the page sizes a listing accepts, and how many records the count of
\* active users reads
MIN_LIMIT == 1
MAX_LIMIT == 100
COUNT_LIMIT == 1000

\* ------------------------------------------------------------------ strings
LowerLetters == {"a", "b", "c", "o"}
UpperLetters == {"A", "B", "C", "O"}
Letters == LowerLetters \cup UpperLetters
\* str.strip() removes these
Whitespace == {" ", "\n", "\t"}

\* one character of str.lower()
LowerChar(c) ==
    CASE c = "A" -> "a"
      [] c = "B" -> "b"
      [] c = "C" -> "c"
      [] c = "O" -> "o"
      [] OTHER -> c

\* str.lower()
lower(s) == [i \in 1..Len(s) |-> LowerChar(s[i])]

RECURSIVE lstrip(_)
lstrip(s) ==
    IF s = <<>> THEN s
    ELSE IF Head(s) \in Whitespace THEN lstrip(Tail(s))
    ELSE s

RECURSIVE rstrip(_)
rstrip(s) ==
    IF s = <<>> THEN s
    ELSE IF s[Len(s)] \in Whitespace THEN rstrip(SubSeq(s, 1, Len(s) - 1))
    ELSE s

\* str.strip()
strip(s) == rstrip(lstrip(s))

\* email.lower().strip()
normalize_email(s) == strip(lower(s))

\* character classes of the email pattern
LocalChars ==
    Letters \cup {"0", "1", "2", "3", "4", "5", "6", "7", "8", "9"}
            \cup {".", "_", "%", "+", "-"}
DomainChars ==
    Letters \cup {"0", "1", "2", "3", "4", "5", "6", "7", "8", "9"} \cup {".", "-"}

\* re.match(r'^[a-zA-Z0-9._%+-]+@[a-zA-Z0-9.-]+\.[a-zA-Z]{2,}$', email):
\* '$' also matches just before one trailing newline
is_valid_email(email) ==
    /\ email # <<>>
    /\ LET body == IF email[Len(email)] = "\n"
                   THEN SubSeq(email, 1, Len(email) - 1)
                   ELSE email
           n == Len(body)
       IN \E i \in 1..n : \E j \in 1..n :
            /\ body[i] = "@"
            /\ body[j] = "."
            /\ 1 < i
            /\ i + 1 < j
            /\ j + 2 <= n
            /\ \A k \in 1..(i - 1) : body[k] \in LocalChars
            /\ \A k \in (i + 1)..(j - 1) : body[k] \in DomainChars
            /\ \A k \in (j + 1)..n : body[k] \in Letters

\* ---------------------------------------------------------------- passwords
RECURSIVE pw_len(_)
pw_len(p) == IF p = <<>> THEN 0 ELSE Head(p)[2] + pw_len(Tail(p))

\* password.strip() == "" (every run is whitespace)
pw_blank(p) == \A i \in 1..Len(p) : p[i][1] \in Whitespace

\* the first n characters of a run-length string
RECURSIVE pw_prefix(_, _)
pw_prefix(p, n) ==
    IF p = <<>> \/ n <= 0 THEN <<>>
    ELSE IF Head(p)[2] <= n
         THEN <<Head(p)>> \o pw_prefix(Tail(p), n - Head(p)[2])
         ELSE << <<Head(p)[1], n>> >>

is_valid_password(password) ==
    IF password = <<>> THEN FALSE
    ELSE pw_len(password) >= MIN_PASSWORD_LEN /\ pw_len(password) <= MAX_PASSWORD_LEN

\* --------------------------------------------------------------- exceptions
\* an exception object: its class, the classes it is an instance of, the
\* error_code DomainException stores, and its message (format + arguments)
Exc(class, bases, code, fmt, args) ==
    [class |-> class, bases |-> bases \cup {class, "Exception"},
     error_code |-> code, message |-> [fmt |-> fmt, args |-> args]]

IsInstance(e, class) == class \in e.bases

ValueError(fmt, args) == Exc("ValueError", {}, "", fmt, args)

AttributeError(fmt, args) == Exc("AttributeError", {}, "", fmt, args)

RuntimeError(fmt, args) == Exc("RuntimeError", {}, "", fmt, args)

ValidationException(fmt, field) ==
    Exc("ValidationException", {"DomainException"}, "VALIDATION_ERROR", fmt, <<>>)

AuthenticationException(fmt) ==
    Exc("AuthenticationException", {"DomainException"}, "AUTHENTICATION_ERROR", fmt, <<>>)

AuthorizationException(fmt) ==
    Exc("AuthorizationException", {"DomainException"}, "AUTHORIZATION_ERROR", fmt, <<>>)

NotFoundException(resource, identifier) ==
    Exc("NotFoundException", {"DomainException"}, "NOT_FOUND",
        "{} con ID '{}' no encontrado", <<resource, identifier>>)

ConflictException(fmt, args) ==
    Exc("ConflictException", {"DomainException"}, "CONFLICT", fmt, args)

BusinessRuleException(fmt, rule) ==
    Exc("BusinessRuleException", {"DomainException"}, "BUSINESS_RULE_VIOLATION", fmt, <<>>)

InfrastructureException(fmt, cause) ==
    Exc("InfrastructureException", {"DomainException"}, "INFRASTRUCTURE_ERROR",
        fmt, <<cause.message>>)

UserAlreadyExistsException(email) ==
    Exc("UserAlreadyExistsException", {"ConflictException", "DomainException"},
        "CONFLICT", "Usuario con email '{}' ya existe", <<email>>)

UserNotFoundException(identifier) ==
    Exc("UserNotFoundException", {"NotFoundException", "DomainException"},
        "NOT_FOUND", "{} con ID '{}' no encontrado", <<"Usuario", identifier>>)

UserInactiveException(user_id) ==
    Exc("UserInactiveException", {"BusinessRuleException", "DomainException"},
        "BUSINESS_RULE_VIOLATION", "Usuario con ID '{}' está inactivo", <<user_id>>)

InvalidCredentialsException ==
    Exc("InvalidCredentialsException", {"AuthenticationException", "DomainException"},
        "AUTHENTICATION_ERROR", "Email o contraseña incorrectos", <<>>)

\* fastapi.HTTPException(status_code, detail, headers)
HTTPException(status_code, detail, headers) ==
    [class |-> "HTTPException", bases |-> {"HTTPException", "Exception"},
     status_code |-> status_code, detail |-> detail, headers |-> headers]

\* results of a call: a value, or a raised exception
Return(v) == [exc |-> {}, val |-> v]
Raise(e) == [exc |-> {e}, val |-> {}]
Raised(r) == r.exc # {}
ExcOf(r) == CHOOSE e \in r.exc : TRUE

\* ---------------------------------------------------------- password hasher
\* bcrypt.hashpw: salted one-way digest of the first 72 bytes; since
\* bcrypt 5.0 a longer password raises ValueError instead of being truncated
\* (strict), which of the two depends on the installed library
bcrypt_hashpw(password, salt, strict) ==
    IF strict /\ pw_len(password) > BCRYPT_MAX_BYTES
    THEN Raise(ValueError("password cannot be longer than 72 bytes", <<>>))
    ELSE Return(<< <<"$2b$12$", 1>>, <<ToString(salt), 1>> >>
                \o pw_prefix(password, BCRYPT_MAX_BYTES))

\* the salt stored in a bcrypt hash string ({} when the string is not one)
bcrypt_salt_of(hashed) ==
    IF Len(hashed) >= 2 /\ hashed[1] = <<"$2b$12$", 1>>
    THEN {hashed[2][1]} ELSE {}

\* bcrypt.checkpw: re-hash with the stored salt and compare
bcrypt_checkpw(password, hashed, strict) ==
    IF bcrypt_salt_of(hashed) = {}
    THEN Raise(ValueError("Invalid salt", <<>>))
    ELSE IF strict /\ pw_len(password) > BCRYPT_MAX_BYTES
    THEN Raise(ValueError("password cannot be longer than 72 bytes", <<>>))
    ELSE Return(SubSeq(hashed, 3, Len(hashed)) = pw_prefix(password, BCRYPT_MAX_BYTES))

hash_password(password, salt, strict) ==
    IF password = <<>>
    THEN Raise(ValueError("Password no puede estar vacío", <<>>))
    ELSE bcrypt_hashpw(password, salt, strict)

verify_password(password, hashed_password, strict) ==
    IF password = <<>> \/ hashed_password = <<>> THEN FALSE
    ELSE LET r == bcrypt_checkpw(password, hashed_password, strict)
         IN IF Raised(r) THEN FALSE ELSE r.val

\* ---------------------------------------------------------------------- JWT
\* jwt.encode: the payload signed with a key
jwt_encode(payload, key) == [wellformed |-> TRUE, payload |-> payload, key |-> key]

\* a string that is not a JWT
GarbageToken ==
    [wellformed |-> FALSE,
     payload |-> [user_id |-> 0, email |-> <<>>, exp |-> 0, iat |-> 0, type |-> ""],
     key |-> ""]

\* jwt.decode(token, key, algorithms=[HS256]): the payload, or the PyJWT error
\* variant: a token is still accepted at the instant of its expiry
jwt_decode_lenient(token, key, now) ==
    IF ~token.wellformed THEN Raise("DecodeError")
    ELSE IF token.key # key THEN Raise("InvalidSignatureError")
    ELSE IF token.payload.exp < now THEN Raise("ExpiredSignatureError")
    ELSE Return(token.payload)

jwt_decode(token, key, now) ==
    IF ~token.wellformed THEN Raise("DecodeError")
    ELSE IF token.key # key THEN Raise("InvalidSignatureError")
    ELSE IF token.payload.exp <= now THEN Raise("ExpiredSignatureError")
    ELSE Return(token.payload)

\* the PyJWT classes that derive from jwt.InvalidTokenError
InvalidTokenErrors ==
    {"InvalidTokenError", "DecodeError", "InvalidSignatureError",
     "ExpiredSignatureError", "ImmatureSignatureError", "InvalidAlgorithmError"}

\* variant: the lifetime is not added to the expiry
create_access_token_no_ttl(user_id, email, now) ==
    jwt_encode([user_id |-> user_id, email |-> email, exp |-> now, iat |-> now,
                type |-> "access"], JWT_SECRET_KEY)

create_access_token(user_id, email, now) ==
    jwt_encode([user_id |-> user_id, email |-> email,
                exp |-> now + JWT_EXPIRATION_TIME_MINUTES, iat |-> now,
                type |-> "access"], JWT_SECRET_KEY)

\* val is Optional[payload]; exc is non-empty when an exception escapes
verify_token(token, now) ==
    LET d == jwt_decode(token, JWT_SECRET_KEY, now)
    IN IF ~Raised(d)
       THEN IF d.val.type # "access" THEN Return({}) ELSE Return({d.val})
       ELSE IF ExcOf(d) = "ExpiredSignatureError" THEN Return({})
       ELSE IF ExcOf(d) \in InvalidTokenErrors THEN Return({})
       ELSE Raise(ExcOf(d))

\* ------------------------------------------------------------ User entity
\* datetime.isoformat() and DateUtils.parse_datetime (None when the string
\* is not an ISO date)
isoformat(t) == <<"iso", t>>
parse_datetime(s) == IF Len(s) = 2 /\ s[1] = "iso" THEN {s[2]} ELSE {}

\* User.__init__: a missing timestamp becomes the current time
User(id, email, password_hash, is_active, created_at, updated_at, now) ==
    [id |-> id, email |-> email, password_hash |-> password_hash,
     is_active |-> is_active,
     created_at |-> IF created_at = {} THEN now ELSE CHOOSE t \in created_at : TRUE,
     updated_at |-> IF updated_at = {} THEN now ELSE CHOOSE t \in updated_at : TRUE]

to_dict(user) ==
    [id |-> user.id, email |-> user.email, password_hash |-> user.password_hash,
     is_active |-> user.is_active,
     created_at |-> isoformat(user.created_at),
     updated_at |-> isoformat(user.updated_at)]

\* variant: the stored creation time is not read back, so that the entity
\* gets the current time
from_dict_restamping(data, now) ==
    User(data.id, data.email, data.password_hash, data.is_active,
         {}, parse_datetime(data.updated_at), now)

from_dict(data, now) ==
    User(data.id, data.email, data.password_hash, data.is_active,
         parse_datetime(data.created_at), parse_datetime(data.updated_at), now)

create_new_user(new_id, email, password_hash, now) ==
    User(new_id, email, password_hash, TRUE, {}, {}, now)

deactivate(user, now) == [user EXCEPT !.is_active = FALSE, !.updated_at = now]

activate(user, now) == [user EXCEPT !.is_active = TRUE, !.updated_at = now]

\* ------------------------------------------------------------- MongoClient
\* The users collection is a set of documents.  failing = TRUE means the
\* collection operations of this request raise (driver or server error).
\* Results of calls that may write: exc, val and the collection afterwards.
Done(v, docs) == [exc |-> {}, val |-> v, docs |-> docs]
Fail(e, docs) == [exc |-> {e}, val |-> {}, docs |-> docs]

\* the unique index on email created by _create_indexes
DuplicateKey(docs, doc) == \E d \in docs : d.email = doc.email /\ d.id # doc.id

\* variant: insert_one without the unique index on email
mongo_create_user_no_index(docs, failing, user) ==
    IF failing THEN Fail(RuntimeError("Error al crear usuario: {}", <<>>), docs)
    ELSE Done(TRUE, docs \cup {to_dict(user)})

mongo_create_user(docs, failing, user) ==
    IF failing THEN Fail(RuntimeError("Error al crear usuario: {}", <<>>), docs)
    ELSE IF \E d \in docs : d.email = to_dict(user).email
    THEN Fail(ValueError("Usuario con email {} ya existe", <<user.email>>), docs)
    ELSE Done(TRUE, docs \cup {to_dict(user)})

mongo_get_user_by_id(docs, failing, user_id, now) ==
    IF failing THEN {}
    ELSE LET m == {d \in docs : d.id = user_id}
         IN IF m # {} THEN {from_dict(CHOOSE d \in m : TRUE, now)} ELSE {}

\* variant: the query also asks for is_active, so that an inactive holder of
\* the email is not found
mongo_get_user_by_email_active_only(docs, failing, email, now) ==
    IF failing THEN {}
    ELSE LET m == {d \in docs : d.email = normalize_email(email) /\ d.is_active}
         IN IF m # {} THEN {from_dict(CHOOSE d \in m : TRUE, now)} ELSE {}

mongo_get_user_by_email(docs, failing, email, now) ==
    IF failing THEN {}
    ELSE LET m == {d \in docs : d.email = normalize_email(email)}
         IN IF m # {} THEN {from_dict(CHOOSE d \in m : TRUE, now)} ELSE {}

\* variant: replace_one with upsert, which inserts the document when no
\* document has the id
mongo_update_user_upsert(docs, failing, user, now) ==
    LET doc == to_dict([user EXCEPT !.updated_at = now])
        m == {d \in docs : d.id = user.id}
    IN IF failing \/ DuplicateKey(docs \ m, doc) THEN Done(FALSE, docs)
       ELSE Done(TRUE, (docs \ m) \cup {doc})

\* replace_one({"id": user.id}, doc); modified_count counts a matched
\* document whose content changed
mongo_update_user(docs, failing, user, now) ==
    LET doc == to_dict([user EXCEPT !.updated_at = now])
        m == {d \in docs : d.id = user.id}
    IN IF failing \/ (m # {} /\ DuplicateKey(docs, doc)) THEN Done(FALSE, docs)
       ELSE IF m # {} /\ m # {doc}
       THEN Done(TRUE, (docs \ m) \cup {doc})
       ELSE Done(FALSE, docs)

mongo_delete_user(docs, failing, user_id) ==
    LET m == {d \in docs : d.id = user_id}
    IN IF failing THEN Done(FALSE, docs)
       ELSE IF m # {} THEN Done(TRUE, docs \ m)
       ELSE Done(FALSE, docs)

\* how many documents find({}) yields before d: find yields the documents
\* in the order of insertion, which in this model is the order of the ids
preceding(docs, d) == Cardinality({e \in docs : e.id < d.id})

\* the documents find({}).skip(skip).limit(limit) yields
find_page(docs, skip, limit) ==
    {d \in docs : preceding(docs, d) >= skip /\ preceding(docs, d) < skip + limit}

\* get_all_users: the users of that page, in order; an error yields the
\* empty list
mongo_get_all_users(docs, failing, skip, limit, now) ==
    IF failing THEN <<>>
    ELSE LET page == find_page(docs, skip, limit)
         IN [k \in 1..Cardinality(page) |->
                from_dict(CHOOSE d \in page : preceding(page, d) = k - 1, now)]

\* --------------------------------------------------------------- UserModel
user_model_get_by_id(docs, failing, user_id, now) ==
    mongo_get_user_by_id(docs, failing, user_id, now)

user_model_get_by_email(docs, failing, email, now) ==
    mongo_get_user_by_email(docs, failing, email, now)

\* UserModel.create from the point where its await of get_user_by_email
\* returned existing: docs is the collection when create_user runs
user_model_create_after_lookup(existing, docs, failing, user) ==
    IF existing # {}
    THEN Fail(ConflictException("Usuario con email {} ya existe", <<user.email>>), docs)
    ELSE LET r == mongo_create_user(docs, failing, user)
         IN IF ~Raised(r) THEN Done(user, r.docs)
            ELSE IF IsInstance(ExcOf(r), "ValueError")
            THEN Fail(ConflictException(ExcOf(r).message.fmt, ExcOf(r).message.args), docs)
            ELSE Fail(InfrastructureException("Error al crear usuario: {}", ExcOf(r)), docs)

\* UserModel.create with nothing else running between its two awaits
user_model_create(docs, failing, user, now) ==
    user_model_create_after_lookup(mongo_get_user_by_email(docs, failing, user.email, now),
                                   docs, failing, user)

user_model_update(docs, failing, user, now) ==
    LET r == mongo_update_user(docs, failing, user, now)
    IN IF r.val
       THEN Done([user EXCEPT !.updated_at = now], r.docs)
       ELSE Fail(InfrastructureException("Error al actualizar usuario: {}",
                                         NotFoundException("Usuario", user.id)), docs)

user_model_delete(docs, failing, user_id) ==
    LET r == mongo_delete_user(docs, failing, user_id)
    IN IF r.val THEN Done(TRUE, r.docs)
       ELSE Fail(NotFoundException("Usuario", user_id), docs)

user_model_get_all(docs, failing, skip, limit, now) ==
    mongo_get_all_users(docs, failing, skip, limit, now)

\* ------------------------------------------------------- CreateUserUseCase
\* a Python str that is empty or only whitespace
blank_str(s) == s = <<>> \/ strip(s) = <<>>

create_validate_input(email, password) ==
    IF blank_str(email)
    THEN {ValidationException("Email es requerido", "email")}
    ELSE IF password = <<>> \/ pw_blank(password)
    THEN {ValidationException("Contraseña es requerida", "password")}
    ELSE IF ~is_valid_email(email)
    THEN {ValidationException("Formato de email inválido", "email")}
    ELSE IF ~is_valid_password(password)
    THEN {ValidationException("La contraseña debe tener entre 6 y 128 caracteres", "password")}
    ELSE {}

\* variant: only active identities count as holders of an email
check_user_not_exists_active_only(docs, failing, email, now) ==
    IF \E u \in user_model_get_by_email(docs, failing, email, now) : u.is_active
    THEN {UserAlreadyExistsException(email)}
    ELSE {}

check_user_not_exists(docs, failing, email, now) ==
    IF user_model_get_by_email(docs, failing, email, now) # {}
    THEN {UserAlreadyExistsException(email)}
    ELSE {}

create_hash_password(password, salt, strict) ==
    LET r == hash_password(password, salt, strict)
    IN IF Raised(r)
       THEN Raise(InfrastructureException("Error al procesar contraseña: {}", ExcOf(r)))
       ELSE r

\* execute up to the call of user_model.create: the entity to store, or the
\* exception raised before it
create_user_prepare(docs, failing, strict, email, password, new_id, salt, now) ==
    LET invalid == create_validate_input(email, password)
        e == normalize_email(email)
        exists == check_user_not_exists(docs, failing, e, now)
        h == create_hash_password(password, salt, strict)
    IN IF invalid # {} THEN Raise(CHOOSE x \in invalid : TRUE)
       ELSE IF exists # {} THEN Raise(CHOOSE x \in exists : TRUE)
       ELSE IF Raised(h) THEN h
       ELSE Return(create_new_user(new_id, e, h.val, now))

\* the try around user_model.create, whose outcome is r
create_user_save(r, docs) ==
    IF Raised(r)
    THEN Fail(InfrastructureException("Error al crear usuario: {}", ExcOf(r)), docs)
    ELSE r

create_user_execute(docs, failing, strict, email, password, new_id, salt, now) ==
    LET p == create_user_prepare(docs, failing, strict, email, password, new_id, salt, now)
    IN IF Raised(p) THEN Fail(ExcOf(p), docs)
       ELSE create_user_save(user_model_create(docs, failing, p.val, now), docs)

\* -------------------------------------------------------- LoginUserUseCase
\* variant: the active flag is not looked at
login_user_execute_ignoring_status(docs, failing, strict, email, password, now) ==
    IF blank_str(email)
    THEN Raise(ValidationException("Email es requerido", "email"))
    ELSE IF password = <<>> \/ pw_blank(password)
    THEN Raise(ValidationException("Contraseña es requerida", "password"))
    ELSE IF ~is_valid_email(email)
    THEN Raise(ValidationException("Formato de email inválido", "email"))
    ELSE LET found == user_model_get_by_email(docs, failing, normalize_email(email), now)
             user == CHOOSE u \in found : TRUE
         IN IF found = {} THEN Raise(InvalidCredentialsException)
            ELSE IF ~verify_password(password, user.password_hash, strict)
            THEN Raise(InvalidCredentialsException)
            ELSE Return([access_token |-> create_access_token(user.id, user.email, now),
                         user |-> user])

login_user_execute(docs, failing, strict, email, password, now) ==
    IF blank_str(email)
    THEN Raise(ValidationException("Email es requerido", "email"))
    ELSE IF password = <<>> \/ pw_blank(password)
    THEN Raise(ValidationException("Contraseña es requerida", "password"))
    ELSE IF ~is_valid_email(email)
    THEN Raise(ValidationException("Formato de email inválido", "email"))
    ELSE LET found == user_model_get_by_email(docs, failing, normalize_email(email), now)
             user == CHOOSE u \in found : TRUE
         IN IF found = {} THEN Raise(InvalidCredentialsException)
            ELSE IF ~user.is_active THEN Raise(UserInactiveException(user.id))
            ELSE IF ~verify_password(password, user.password_hash, strict)
            THEN Raise(InvalidCredentialsException)
            ELSE Return([access_token |-> create_access_token(user.id, user.email, now),
                         user |-> user])

\* ------------------------------------------------------- UpdateUserUseCase
\* Optional[str] that Python treats as false: None or ""
falsy(opt) == opt = {} \/ opt = {<<>>}

\* user.update_email(new_email) and user.update_password_hash(new_hash): the
\* User class defines neither method, so the attribute lookup raises
\* variant: User has update_email, which sets the field and the time of the
\* change on the entity
call_update_email_defined(user, new_email, now) ==
    Return([user EXCEPT !.email = new_email, !.updated_at = now])

call_update_email(user, new_email, now) ==
    Raise(AttributeError("'User' object has no attribute '{}'", <<"update_email">>))

call_update_password_hash(user, new_password_hash, now) ==
    Raise(AttributeError("'User' object has no attribute '{}'", <<"update_password_hash">>))

update_user_email(docs, failing, user, new_email, now) ==
    LET e == normalize_email(new_email)
        existing == user_model_get_by_email(docs, failing, e, now)
    IN IF ~is_valid_email(new_email)
       THEN Raise(ValidationException("El formato del email es inválido", "email"))
       ELSE IF existing # {} /\ (CHOOSE u \in existing : TRUE).id # user.id
       THEN Raise(ConflictException("El email {} ya está en uso por otro usuario", <<e>>))
       ELSE call_update_email(user, e, now)

update_user_password(user, new_password, salt, strict, now) ==
    LET h == hash_password(new_password, salt, strict)
    IN IF ~is_valid_password(new_password)
       THEN Raise(ValidationException("La contraseña debe tener entre 6 y 128 caracteres",
                                      "password"))
       ELSE IF Raised(h) THEN h
       ELSE call_update_password_hash(user, h.val, now)

\* variant: the new email is written to the repository as soon as it has
\* been accepted, before the new password is looked at
update_user_execute_per_field(docs, failing, strict, user_id, requesting_user_id, new_email, new_password, salt, now) ==
    LET found == user_model_get_by_id(docs, failing, user_id, now)
        user == CHOOSE u \in found : TRUE
        e == normalize_email(CHOOSE x \in new_email : TRUE)
        w == user_model_update(docs, failing, [user EXCEPT !.email = e], now)
        r2 == IF falsy(new_password) THEN Return(user)
              ELSE update_user_password(user, CHOOSE x \in new_password : TRUE,
                                        salt, strict, now)
    IN IF user_id = 0 \/ user_id # requesting_user_id \/ found = {}
       THEN Fail(AuthorizationException("No tienes permisos para actualizar este usuario"),
                 docs)
       ELSE IF ~user.is_active THEN Fail(UserInactiveException(user_id), docs)
       ELSE IF falsy(new_email)
       THEN (IF Raised(r2) THEN Fail(ExcOf(r2), docs) ELSE Done(user, docs))
       ELSE IF ~is_valid_email(CHOOSE x \in new_email : TRUE)
       THEN Fail(ValidationException("El formato del email es inválido", "email"), docs)
       ELSE IF Raised(w) THEN w
       ELSE IF Raised(r2) THEN Fail(ExcOf(r2), w.docs)
       ELSE w

\* variant: the fields are looked at only after the requester was fetched
update_user_execute_fields_last(docs, failing, strict, user_id, requesting_user_id, new_email, new_password, salt, now) ==
    LET requesting == user_model_get_by_id(docs, failing, requesting_user_id, now)
    IN IF user_id = 0
       THEN Fail(ValidationException("User ID es requerido", "user_id"), docs)
       ELSE IF requesting_user_id = 0
       THEN Fail(ValidationException("Requesting user ID es requerido",
                                     "requesting_user_id"), docs)
       ELSE IF requesting = {}
       THEN Fail(AuthorizationException("Usuario solicitante no encontrado"), docs)
       ELSE IF ~(CHOOSE u \in requesting : TRUE).is_active
       THEN Fail(UserInactiveException(requesting_user_id), docs)
       ELSE Fail(BusinessRuleException("Debe proporcionar al menos un campo para actualizar",
                                       "update_fields_required"), docs)

update_user_execute(docs, failing, strict, user_id, requesting_user_id, new_email, new_password, salt, now) ==
    LET requesting == user_model_get_by_id(docs, failing, requesting_user_id, now)
        found == user_model_get_by_id(docs, failing, user_id, now)
        user == CHOOSE u \in found : TRUE
        r1 == IF falsy(new_email) THEN Return(user)
              ELSE update_user_email(docs, failing, user,
                                     CHOOSE x \in new_email : TRUE, now)
        r2 == IF falsy(new_password) THEN r1
              ELSE update_user_password(r1.val, CHOOSE x \in new_password : TRUE,
                                        salt, strict, now)
    IN IF user_id = 0
       THEN Fail(ValidationException("User ID es requerido", "user_id"), docs)
       ELSE IF requesting_user_id = 0
       THEN Fail(ValidationException("Requesting user ID es requerido",
                                     "requesting_user_id"), docs)
       ELSE IF falsy(new_email) /\ falsy(new_password)
       THEN Fail(BusinessRuleException("Debe proporcionar al menos un campo para actualizar",
                                       "update_fields_required"), docs)
       ELSE IF requesting = {}
       THEN Fail(AuthorizationException("Usuario solicitante no encontrado"), docs)
       ELSE IF ~(CHOOSE u \in requesting : TRUE).is_active
       THEN Fail(UserInactiveException(requesting_user_id), docs)
       ELSE IF user_id # requesting_user_id
       THEN Fail(AuthorizationException("No tienes permisos para actualizar este usuario"),
                 docs)
       ELSE IF found = {} THEN Fail(UserNotFoundException(user_id), docs)
       ELSE IF ~user.is_active THEN Fail(UserInactiveException(user_id), docs)
       ELSE IF Raised(r1) THEN Fail(ExcOf(r1), docs)
       ELSE IF Raised(r2) THEN Fail(ExcOf(r2), docs)
       ELSE user_model_update(docs, failing, r2.val, now)

\* ------------------------------------------------------- DeleteUserUseCase
execute_soft_delete(docs, failing, user_id, requesting_user_id, now) ==
    LET found == user_model_get_by_id(docs, failing, user_id, now)
        user == CHOOSE u \in found : TRUE
    IN IF user_id = 0 THEN Fail(ValueError("User ID es requerido", <<>>), docs)
       ELSE IF requesting_user_id = 0
       THEN Fail(ValueError("Requesting user ID es requerido", <<>>), docs)
       ELSE IF user_id # requesting_user_id
       THEN Fail(ValueError("No tienes permisos para eliminar este usuario", <<>>), docs)
       ELSE IF found = {} THEN Fail(ValueError("Usuario no encontrado", <<>>), docs)
       ELSE IF ~user.is_active THEN Fail(ValueError("Usuario ya está inactivo", <<>>), docs)
       ELSE user_model_update(docs, failing, deactivate(user, now), now)

\* variant: the target is not compared with the requester
execute_hard_delete_unchecked(docs, failing, user_id, requesting_user_id, now) ==
    LET found == user_model_get_by_id(docs, failing, user_id, now)
        r == user_model_delete(docs, failing, user_id)
    IN IF user_id = 0 THEN Fail(ValueError("User ID es requerido", <<>>), docs)
       ELSE IF requesting_user_id = 0
       THEN Fail(ValueError("Requesting user ID es requerido", <<>>), docs)
       ELSE IF found = {} THEN Fail(ValueError("Usuario no encontrado", <<>>), docs)
       ELSE IF Raised(r) THEN r
       ELSE Done(user_id, r.docs)

\* variant: the record is flagged inactive instead of being removed
execute_hard_delete_flag_only(docs, failing, user_id, requesting_user_id, now) ==
    LET found == user_model_get_by_id(docs, failing, user_id, now)
        r == user_model_update(docs, failing, deactivate(CHOOSE u \in found : TRUE, now), now)
    IN IF user_id = 0 THEN Fail(ValueError("User ID es requerido", <<>>), docs)
       ELSE IF requesting_user_id = 0
       THEN Fail(ValueError("Requesting user ID es requerido", <<>>), docs)
       ELSE IF user_id # requesting_user_id
       THEN Fail(ValueError("No tienes permisos para eliminar este usuario", <<>>), docs)
       ELSE IF found = {} THEN Fail(ValueError("Usuario no encontrado", <<>>), docs)
       ELSE IF Raised(r) THEN r
       ELSE Done(user_id, r.docs)

execute_hard_delete(docs, failing, user_id, requesting_user_id, now) ==
    LET found == user_model_get_by_id(docs, failing, user_id, now)
        r == user_model_delete(docs, failing, user_id)
    IN IF user_id = 0 THEN Fail(ValueError("User ID es requerido", <<>>), docs)
       ELSE IF requesting_user_id = 0
       THEN Fail(ValueError("Requesting user ID es requerido", <<>>), docs)
       ELSE IF user_id # requesting_user_id
       THEN Fail(ValueError("No tienes permisos para eliminar este usuario", <<>>), docs)
       ELSE IF found = {} THEN Fail(ValueError("Usuario no encontrado", <<>>), docs)
       ELSE IF Raised(r) THEN r
       ELSE Done(user_id, r.docs)

\* variant: an identity that is already active is activated again
reactivate_user_unconditional(docs, failing, user_id, requesting_user_id, now) ==
    LET found == user_model_get_by_id(docs, failing, user_id, now)
        user == CHOOSE u \in found : TRUE
    IN IF user_id = 0 THEN Fail(ValueError("User ID es requerido", <<>>), docs)
       ELSE IF requesting_user_id = 0
       THEN Fail(ValueError("Requesting user ID es requerido", <<>>), docs)
       ELSE IF user_id # requesting_user_id
       THEN Fail(ValueError("No tienes permisos para reactivar este usuario", <<>>), docs)
       ELSE IF found = {} THEN Fail(ValueError("Usuario no encontrado", <<>>), docs)
       ELSE user_model_update(docs, failing, activate(user, now), now)

reactivate_user(docs, failing, user_id, requesting_user_id, now) ==
    LET found == user_model_get_by_id(docs, failing, user_id, now)
        user == CHOOSE u \in found : TRUE
    IN IF user_id = 0 THEN Fail(ValueError("User ID es requerido", <<>>), docs)
       ELSE IF requesting_user_id = 0
       THEN Fail(ValueError("Requesting user ID es requerido", <<>>), docs)
       ELSE IF user_id # requesting_user_id
       THEN Fail(ValueError("No tienes permisos para reactivar este usuario", <<>>), docs)
       ELSE IF found = {} THEN Fail(ValueError("Usuario no encontrado", <<>>), docs)
       ELSE IF user.is_active THEN Fail(ValueError("Usuario ya está activo", <<>>), docs)
       ELSE user_model_update(docs, failing, activate(user, now), now)

\* execute_soft_delete, reactivate_user or execute_hard_delete from the
\* point where the await of get_by_id returned the documents seen: the checks
\* are made on what was read, the write reaches the collection docs as it is
\* when the write runs
change_after_read(op, seen, docs, user_id, requesting_user_id, now) ==
    LET r == CASE op = "soft_delete" ->
                    execute_soft_delete(seen, FALSE, user_id, requesting_user_id, now)
               [] op = "reactivate_user" ->
                    reactivate_user(seen, FALSE, user_id, requesting_user_id, now)
               [] op = "hard_delete" ->
                    execute_hard_delete(seen, FALSE, user_id, requesting_user_id, now)
        w == user_model_delete(docs, FALSE, user_id)
    IN IF Raised(r) THEN Fail(ExcOf(r), docs)
       ELSE IF op = "hard_delete"
       THEN (IF Raised(w) THEN w ELSE Done(user_id, w.docs))
       ELSE user_model_update(docs, FALSE, r.val, now)

\* UpdateUserUseCase.execute up to the point where the await of get_by_id
\* for the target returned: the checks on the arguments, on the requester and
\* on the target as it was read; val is the entity read
update_user_read(docs, failing, user_id, requesting_user_id, new_email, new_password, now) ==
    LET requesting == user_model_get_by_id(docs, failing, requesting_user_id, now)
        found == user_model_get_by_id(docs, failing, user_id, now)
    IN IF user_id = 0
       THEN Raise(ValidationException("User ID es requerido", "user_id"))
       ELSE IF requesting_user_id = 0
       THEN Raise(ValidationException("Requesting user ID es requerido",
                                      "requesting_user_id"))
       ELSE IF falsy(new_email) /\ falsy(new_password)
       THEN Raise(BusinessRuleException("Debe proporcionar al menos un campo para actualizar",
                                        "update_fields_required"))
       ELSE IF requesting = {}
       THEN Raise(AuthorizationException("Usuario solicitante no encontrado"))
       ELSE IF ~(CHOOSE u \in requesting : TRUE).is_active
       THEN Raise(UserInactiveException(requesting_user_id))
       ELSE IF user_id # requesting_user_id
       THEN Raise(AuthorizationException("No tienes permisos para actualizar este usuario"))
       ELSE IF found = {} THEN Raise(UserNotFoundException(user_id))
       ELSE IF ~(CHOOSE u \in found : TRUE).is_active
       THEN Raise(UserInactiveException(user_id))
       ELSE Return(CHOOSE u \in found : TRUE)

\* the rest of UpdateUserUseCase.execute: the entity read earlier is changed
\* in memory (the email after get_by_email on the collection docs as it is
\* now), then written whole by UserModel.update
update_after_read(user, docs, strict, new_email, new_password, salt, now) ==
    LET r1 == IF falsy(new_email) THEN Return(user)
              ELSE update_user_email(docs, FALSE, user, CHOOSE x \in new_email : TRUE, now)
        r2 == IF Raised(r1) \/ falsy(new_password) THEN r1
              ELSE update_user_password(r1.val, CHOOSE x \in new_password : TRUE,
                                        salt, strict, now)
    IN IF Raised(r2) THEN Fail(ExcOf(r2), docs)
       ELSE user_model_update(docs, FALSE, r2.val, now)

\* -------------------------------------------------------- ListUsersUseCase
\* the users of a list that are active, in the order of the list
active_only(list) == SelectSeq(list, LAMBDA u : u.is_active)

\* sum(1 for user in get_all(skip=0, limit=1000) if user.is_active): the
\* count does not depend on the order of the list
count_active_users(docs, failing, now) ==
    IF failing THEN 0
    ELSE Cardinality({d \in find_page(docs, 0, COUNT_LIMIT) : from_dict(d, now).is_active})

\* val is the tuple (active_users, total_users)
list_users_execute(docs, failing, requesting_user_id, skip, limit, now) ==
    LET requesting == user_model_get_by_id(docs, failing, requesting_user_id, now)
    IN IF requesting_user_id = 0
       THEN Raise(ValueError("Requesting user ID es requerido", <<>>))
       ELSE IF skip < 0
       THEN Raise(ValueError("Skip debe ser mayor o igual a 0", <<>>))
       ELSE IF limit < MIN_LIMIT \/ limit > MAX_LIMIT
       THEN Raise(ValueError("Limit debe estar entre 1 y 100", <<>>))
       ELSE IF requesting = {} \/ \E u \in requesting : ~u.is_active
       THEN Raise(ValueError("Usuario no autorizado", <<>>))
       ELSE Return(<<active_only(user_model_get_all(docs, failing, skip, limit, now)),
                     count_active_users(docs, failing, now)>>)

\* --------------------------------------------------------------- UserMapper
entity_to_dto(user) ==
    [id |-> user.id, email |-> user.email, is_active |-> user.is_active,
     created_at |-> user.created_at, updated_at |-> user.updated_at]

dto_to_dict(user_dto) ==
    [id |-> user_dto.id, email |-> user_dto.email, is_active |-> user_dto.is_active,
     created_at |-> isoformat(user_dto.created_at),
     updated_at |-> isoformat(user_dto.updated_at)]

create_list_response(list, total, skip, limit) ==
    [users |-> [k \in 1..Len(list) |-> dto_to_dict(entity_to_dto(list[k]))],
     total |-> total, skip |-> skip, limit |-> limit,
     has_more |-> skip + Len(list) < total]

\* UserController.list_users
controller_list_users(docs, failing, requesting_user_id, skip, limit, now) ==
    LET r == list_users_execute(docs, failing, requesting_user_id, skip, limit, now)
    IN IF Raised(r) THEN r
       ELSE Return(create_list_response(r.val[1], r.val[2], skip, limit))

\* ------------------------------------------------------ GetUserByIdUseCase
\* unquote, strip quotes and blanks: ids are modelled already clean, with 0
\* for the empty string, which stays empty
sanitize_user_id(user_id) == IF user_id = 0 THEN 0 ELSE user_id

validate_requesting_user(docs, failing, requesting_user_id, now) ==
    LET requesting == user_model_get_by_id(docs, failing, requesting_user_id, now)
    IN IF requesting = {}
       THEN Raise(AuthorizationException("Usuario solicitante no encontrado"))
       ELSE IF \E u \in requesting : ~u.is_active
       THEN Raise(UserInactiveException(requesting_user_id))
       ELSE Return(CHOOSE u \in requesting : TRUE)

\* variant: an inactive target is reported as inactive
get_target_user_revealing(docs, failing, user_id, now) ==
    LET found == user_model_get_by_id(docs, failing, user_id, now)
    IN IF found = {} THEN Raise(UserNotFoundException(user_id))
       ELSE IF \E u \in found : ~u.is_active THEN Raise(UserInactiveException(user_id))
       ELSE Return(CHOOSE u \in found : TRUE)

get_target_user(docs, failing, user_id, now) ==
    LET found == user_model_get_by_id(docs, failing, user_id, now)
    IN IF found = {} THEN Raise(UserNotFoundException(user_id))
       ELSE IF \E u \in found : ~u.is_active THEN Raise(UserNotFoundException(user_id))
       ELSE Return(CHOOSE u \in found : TRUE)

get_user_by_id_execute(docs, failing, user_id, requesting_user_id, now) ==
    LET id == sanitize_user_id(user_id)
        requesting == validate_requesting_user(docs, failing, requesting_user_id, now)
    IN IF id = 0 THEN Raise(ValidationException("User ID es requerido", "user_id"))
       ELSE IF requesting_user_id = 0
       THEN Raise(ValidationException("Requesting user ID es requerido",
                                      "requesting_user_id"))
       ELSE IF Raised(requesting) THEN requesting
       ELSE get_target_user(docs, failing, id, now)

\* --------------------------------------------------------- SecurityService
credentials_exception ==
    HTTPException(401, "Could not validate credentials",
                  {<<"WWW-Authenticate", "Bearer">>})

\* variant: the subject's active flag is not looked at
get_current_user_any_status(docs, failing, token, now) ==
    LET v == verify_token(token, now)
        payload == CHOOSE x \in v.val : TRUE
        found == user_model_get_by_id(docs, failing, payload.user_id, now)
        user == CHOOSE u \in found : TRUE
    IN IF Raised(v) \/ v.val = {} THEN Raise(credentials_exception)
       ELSE IF found = {} THEN Raise(credentials_exception)
       ELSE Return(user)

\* variant: a token issued before the last change of its subject is refused
get_current_user_revoking(docs, failing, token, now) ==
    LET v == verify_token(token, now)
        payload == CHOOSE x \in v.val : TRUE
        found == user_model_get_by_id(docs, failing, payload.user_id, now)
        user == CHOOSE u \in found : TRUE
    IN IF Raised(v) \/ v.val = {} THEN Raise(credentials_exception)
       ELSE IF found = {} THEN Raise(credentials_exception)
       ELSE IF ~user.is_active THEN Raise(HTTPException(401, "Inactive user", {}))
       ELSE IF payload.iat < user.updated_at THEN Raise(credentials_exception)
       ELSE Return(user)

get_current_user(docs, failing, token, now) ==
    LET v == verify_token(token, now)
        payload == CHOOSE x \in v.val : TRUE
        found == user_model_get_by_id(docs, failing, payload.user_id, now)
        user == CHOOSE u \in found : TRUE
    IN IF Raised(v) \/ v.val = {} THEN Raise(credentials_exception)
       ELSE IF found = {} THEN Raise(credentials_exception)
       ELSE IF ~user.is_active THEN Raise(HTTPException(401, "Inactive user", {}))
       ELSE Return(user)

\* get_current_active_user depends on get_current_user, whose outcome it
\* receives; an exception of the dependency ends the request
get_current_active_user(docs, failing, token, now) ==
    LET r == get_current_user(docs, failing, token, now)
    IN IF Raised(r) THEN r
       ELSE IF ~r.val.is_active THEN Raise(HTTPException(400, "Inactive user", {}))
       ELSE r

\* ------------------------------------------------- the user routes, gated
\* the except ValueError clause the user routes share: 404 if str(e).lower()
\* contains "no encontrado" or "not found", 403 if it contains "permisos" or
\* "permission", 400 otherwise
value_error_to_http(e) ==
    IF e.message.fmt \in {"Usuario no encontrado"}
    THEN HTTPException(404, e.message, {})
    ELSE IF e.message.fmt \in {"No tienes permisos para eliminar este usuario",
                               "No tienes permisos para reactivar este usuario"}
    THEN HTTPException(403, e.message, {})
    ELSE HTTPException(400, e.message, {})

\* the except clauses of a route around its controller call r; only some
\* routes have the trailing except Exception
route_except(r, catch_all) ==
    IF ~Raised(r) THEN r
    ELSE IF IsInstance(ExcOf(r), "ValueError")
    THEN Fail(value_error_to_http(ExcOf(r)), r.docs)
    ELSE IF catch_all
    THEN Fail(HTTPException(500, "Error interno del servidor", {}), r.docs)
    ELSE r

create_update_response(user, message) ==
    [user |-> dto_to_dict(entity_to_dto(user)), message |-> message]

create_delete_response(user, message) == [message |-> message, deleted_id |-> user.id]

\* PUT /{user_id}
route_update_user(docs, failing, strict, token, user_id, new_email, new_password, salt, now) ==
    LET g == get_current_active_user(docs, failing, token, now)
        r == update_user_execute(docs, failing, strict, user_id, g.val.id,
                                 new_email, new_password, salt, now)
    IN IF Raised(g) THEN Fail(ExcOf(g), docs)
       ELSE IF Raised(r) THEN route_except(r, TRUE)
       ELSE Done(create_update_response(r.val, "Usuario actualizado exitosamente"), r.docs)

\* DELETE /{user_id}
route_delete_user_soft(docs, failing, token, user_id, now) ==
    LET g == get_current_active_user(docs, failing, token, now)
        r == execute_soft_delete(docs, failing, user_id, g.val.id, now)
    IN IF Raised(g) THEN Fail(ExcOf(g), docs)
       ELSE IF Raised(r) THEN route_except(r, TRUE)
       ELSE Done(create_delete_response(r.val, "Usuario desactivado exitosamente"), r.docs)

\* DELETE /{user_id}/permanent
route_delete_user_hard(docs, failing, token, user_id, now) ==
    LET g == get_current_active_user(docs, failing, token, now)
        r == execute_hard_delete(docs, failing, user_id, g.val.id, now)
    IN IF Raised(g) THEN Fail(ExcOf(g), docs)
       ELSE IF Raised(r) THEN route_except(r, TRUE)
       ELSE Done([message |-> "Usuario eliminado permanentemente",
                  deleted_id |-> r.val], r.docs)

\* POST /{user_id}/reactivate
route_reactivate_user(docs, failing, token, user_id, now) ==
    LET g == get_current_active_user(docs, failing, token, now)
        r == reactivate_user(docs, failing, user_id, g.val.id, now)
    IN IF Raised(g) THEN Fail(ExcOf(g), docs)
       ELSE IF Raised(r) THEN route_except(r, FALSE)
       ELSE Done(create_update_response(r.val, "Usuario reactivado exitosamente"), r.docs)

\* ------------------------------------------------------------------- state
VARIABLES
    users,          \* the users collection: a set of documents
    generated,      \* how many ids generate_uuid has handed out
    issued,         \* the tokens create_access_token has returned
    now,            \* the UTC clock, in minutes
    resp,           \* the request being answered: operation, inputs, exception, value
    bcrypt_strict,  \* whether the installed bcrypt rejects passwords over 72 bytes
    registered,     \* registered[i]: the password identity i was registered with
                    \* (what its owner knows; the program keeps only the hash)
    inflight        \* create requests suspended at an await, by request number

vars == <<users, generated, issued, now, resp, bcrypt_strict, registered, inflight>>

\* ------------------------------------------------------------------ inputs
Email_a == <<"a", "@", "b", ".", "c", "o">>
\* upper case and a trailing newline: well-formed, normalizes to Email_a
Email_A_nl == <<"A", "@", "B", ".", "c", "o", "\n">>
\* leading blank: normalizes to Email_a but is not well-formed
Email_a_pad == <<" ", "a", "@", "b", ".", "c", "o">>
Email_c == <<"c", "@", "b", ".", "c", "o">>
Email_bad == <<"a", "b", ".", "c", "o">>

EmailInputs == {<<>>, Email_a, Email_A_nl, Email_a_pad, Email_c, Email_bad}

Pw_short == << <<"p", 5>> >>
Pw_spaces == << <<" ", 6>> >>
Pw_p == << <<"p", 6>> >>
\* two passwords of 100 characters that share their first 72
Pw_long_s == << <<"r", 72>>, <<"s", 28>> >>
Pw_long_t == << <<"r", 72>>, <<"t", 28>> >>
Pw_over == << <<"p", 129>> >>

PasswordInputs == {<<>>, Pw_short, Pw_spaces, Pw_p, Pw_long_s, Pw_long_t, Pw_over}

\* ids a request may name: 0 is the blank string, the others may or may not
\* have been generated yet
IdInputs == 0..MaxUsers

Salts == 1..MaxSalt

\* tokens signed by someone who does not hold the server secret
ForgedTokens ==
    {jwt_encode([user_id |-> i, email |-> Email_a,
                 exp |-> MaxTime + JWT_EXPIRATION_TIME_MINUTES, iat |-> 0,
                 type |-> "access"], "attacker-key") : i \in 1..MaxUsers}

\* what a client can present as a bearer credential
TokenInputs == issued \cup ForgedTokens \cup {GarbageToken}

NoResponse == [op |-> "none", in |-> {}, exc |-> {}, val |-> {}]

\* no request is being served
Idle == resp.op = "none"

\* op and in: the request; exc and val: what the handler raised or returned
Response(op, in, r) == [op |-> op, in |-> in, exc |-> r.exc, val |-> r.val]

Init ==
    /\ users = {}
    /\ generated = 0
    /\ issued = {}
    /\ now = 0
    /\ resp = NoResponse
    /\ bcrypt_strict \in BOOLEAN
    /\ registered = <<>>
    /\ inflight = <<>>

\* ----------------------------------------------------------------- actions
\* POST /register -> CreateUserUseCase.execute
CreateUser(email, password, salt) ==
    LET r == create_user_execute(users, FALSE, bcrypt_strict, email, password,
                                 generated + 1, salt, now)
    IN /\ Idle
       /\ Raised(r) \/ generated < MaxUsers
       /\ users' = r.docs
       /\ generated' = IF Raised(r) THEN generated ELSE generated + 1
       /\ registered' = IF Raised(r) THEN registered ELSE Append(registered, password)
       /\ resp' = Response("create_user", [email |-> email, password |-> password], r)
       /\ UNCHANGED <<issued, now, bcrypt_strict, inflight>>

\* POST /login -> LoginUserUseCase.execute
LoginUser(email, password) ==
    LET r == login_user_execute(users, FALSE, bcrypt_strict, email, password, now)
    IN /\ Idle
       /\ IF Raised(r) THEN TRUE
          ELSE r.val.access_token \in issued \/ Cardinality(issued) < MaxTokens
       /\ issued' = IF Raised(r) THEN issued ELSE issued \cup {r.val.access_token}
       /\ resp' = Response("login_user", [email |-> email, password |-> password], r)
       /\ UNCHANGED <<users, generated, now, bcrypt_strict, registered, inflight>>

\* Depends(get_current_user) on a request carrying a bearer credential
Authenticate(token) ==
    /\ Idle
    /\ resp' = Response("get_current_user", [token |-> token],
                        get_current_user(users, FALSE, token, now))
    /\ UNCHANGED <<users, generated, issued, now, bcrypt_strict, registered, inflight>>

\* PUT /{user_id} -> UpdateUserUseCase.execute
UpdateUser(user_id, requesting_user_id, new_email, new_password, salt) ==
    LET r == update_user_execute(users, FALSE, bcrypt_strict, user_id,
                                 requesting_user_id, new_email, new_password, salt, now)
    IN /\ Idle
       /\ users' = r.docs
       /\ resp' = Response("update_user",
                         [user_id |-> user_id, requesting_user_id |-> requesting_user_id,
                          new_email |-> new_email, new_password |-> new_password], r)
       /\ registered' = IF Raised(r) \/ falsy(new_password) THEN registered
                        ELSE [registered EXCEPT ![user_id] = CHOOSE x \in new_password : TRUE]
       /\ UNCHANGED <<generated, issued, now, bcrypt_strict, inflight>>

\* DELETE /{user_id} -> DeleteUserUseCase.execute_soft_delete
SoftDelete(user_id, requesting_user_id) ==
    LET r == execute_soft_delete(users, FALSE, user_id, requesting_user_id, now)
    IN /\ Idle
       /\ users' = r.docs
       /\ resp' = Response("soft_delete",
                         [user_id |-> user_id, requesting_user_id |-> requesting_user_id], r)
       /\ UNCHANGED <<generated, issued, now, bcrypt_strict, registered, inflight>>

\* DELETE /{user_id}/permanent -> DeleteUserUseCase.execute_hard_delete
HardDelete(user_id, requesting_user_id) ==
    LET r == execute_hard_delete(users, FALSE, user_id, requesting_user_id, now)
    IN /\ Idle
       /\ users' = r.docs
       /\ resp' = Response("hard_delete",
                         [user_id |-> user_id, requesting_user_id |-> requesting_user_id], r)
       /\ UNCHANGED <<generated, issued, now, bcrypt_strict, registered, inflight>>

\* POST /{user_id}/reactivate -> DeleteUserUseCase.reactivate_user
Reactivate(user_id, requesting_user_id) ==
    LET r == reactivate_user(users, FALSE, user_id, requesting_user_id, now)
    IN /\ Idle
       /\ users' = r.docs
       /\ resp' = Response("reactivate_user",
                         [user_id |-> user_id, requesting_user_id |-> requesting_user_id], r)
       /\ UNCHANGED <<generated, issued, now, bcrypt_strict, registered, inflight>>

\* the outcome of the request reaches the caller
Deliver ==
    /\ ~Idle
    /\ resp' = NoResponse
    /\ UNCHANGED <<users, generated, issued, now, bcrypt_strict, registered, inflight>>

\* time passes between requests
Tick ==
    /\ Idle
    /\ now + TickStep <= MaxTime
    /\ now' = now + TickStep
    /\ UNCHANGED <<users, generated, issued, resp, bcrypt_strict, registered, inflight>>

\* the optional fields of an update request (None, or a string)
OptionalEmail == {{}} \cup {{e} : e \in {<<>>, Email_A_nl, Email_c, Email_bad}}
OptionalPassword == {{}} \cup {{p} : p \in {Pw_short, Pw_p}}

Next ==
    \/ \E e \in EmailInputs, p \in PasswordInputs, s \in Salts : CreateUser(e, p, s)
    \/ \E e \in EmailInputs, p \in PasswordInputs : LoginUser(e, p)
    \/ \E t \in TokenInputs : Authenticate(t)
    \/ \E t \in IdInputs, r \in IdInputs, e \in OptionalEmail,
          p \in OptionalPassword, s \in Salts : UpdateUser(t, r, e, p, s)
    \/ \E t \in IdInputs, r \in IdInputs : SoftDelete(t, r)
    \/ \E t \in IdInputs, r \in IdInputs : HardDelete(t, r)
    \/ \E t \in IdInputs, r \in IdInputs : Reactivate(t, r)
    \/ Deliver
    \/ Tick

Spec == Init /\ [][Next]_vars

\* ------------------------------------------------ the gated API as a whole
\* the service as its clients reach it: registration and login are open,
\* every user route takes the bearer credential of the request

RouteUpdate(token, user_id, new_email, new_password, salt) ==
    LET r == route_update_user(users, FALSE, bcrypt_strict, token, user_id,
                               new_email, new_password, salt, now)
    IN /\ Idle
       /\ users' = r.docs
       /\ resp' = Response("route_update_user",
                         [token |-> token, user_id |-> user_id,
                          new_email |-> new_email, new_password |-> new_password], r)
       /\ UNCHANGED <<generated, issued, now, bcrypt_strict, registered, inflight>>

RouteSoftDelete(token, user_id) ==
    LET r == route_delete_user_soft(users, FALSE, token, user_id, now)
    IN /\ Idle
       /\ users' = r.docs
       /\ resp' = Response("route_delete_user_soft",
                         [token |-> token, user_id |-> user_id], r)
       /\ UNCHANGED <<generated, issued, now, bcrypt_strict, registered, inflight>>

RouteHardDelete(token, user_id) ==
    LET r == route_delete_user_hard(users, FALSE, token, user_id, now)
    IN /\ Idle
       /\ users' = r.docs
       /\ resp' = Response("route_delete_user_hard",
                         [token |-> token, user_id |-> user_id], r)
       /\ UNCHANGED <<generated, issued, now, bcrypt_strict, registered, inflight>>

RouteReactivate(token, user_id) ==
    LET r == route_reactivate_user(users, FALSE, token, user_id, now)
    IN /\ Idle
       /\ users' = r.docs
       /\ resp' = Response("route_reactivate_user",
                         [token |-> token, user_id |-> user_id], r)
       /\ UNCHANGED <<generated, issued, now, bcrypt_strict, registered, inflight>>

NextApi ==
    \/ \E e \in {Email_a, Email_c, Email_bad}, p \in {Pw_short, Pw_p}, s \in Salts :
          CreateUser(e, p, s)
    \/ \E e \in {Email_a, Email_c, Email_bad}, p \in {Pw_short, Pw_p} : LoginUser(e, p)
    \/ \E t \in TokenInputs, i \in IdInputs, e \in OptionalEmail,
          p \in OptionalPassword, s \in Salts : RouteUpdate(t, i, e, p, s)
    \/ \E t \in TokenInputs, i \in IdInputs : RouteSoftDelete(t, i)
    \/ \E t \in TokenInputs, i \in IdInputs : RouteHardDelete(t, i)
    \/ \E t \in TokenInputs, i \in IdInputs : RouteReactivate(t, i)
    \/ Deliver
    \/ Tick

SpecApi == Init /\ [][NextApi]_vars

\* ------------------------------------------- requests running concurrently
\* The handlers are coroutines on one event loop: a request runs without
\* interruption from one await of the database to the next, and other
\* requests run while it waits.  inflight[k] is request k between two steps.
\* Answers leave one at a time (Deliver); that orders the answers, not the
\* steps.

\* CreateUserUseCase.execute up to the await inside UserModel.create: input
\* validation, the existence check on the collection as it is now, the hash,
\* the new entity with its generated id
BeginCreate(email, password, salt) ==
    LET p == create_user_prepare(users, FALSE, bcrypt_strict, email, password,
                                 generated + 1, salt, now)
        in == [email |-> email, password |-> password]
    IN /\ Idle
       /\ Raised(p) \/ (generated < MaxUsers /\ Len(inflight) < MaxRequests)
       /\ IF Raised(p)
          THEN /\ resp' = Response("create_user", in, p)
               /\ UNCHANGED <<generated, registered, inflight>>
          ELSE /\ resp' = resp
               /\ generated' = generated + 1
               /\ registered' = Append(registered, password)
               /\ inflight' = Append(inflight, [op |-> "create_user", in |-> in,
                                                pc |-> "lookup", user |-> p.val])
       /\ UNCHANGED <<users, issued, now, bcrypt_strict>>

\* UserModel.create: get_user_by_email returns; a holder of the email ends
\* the request, otherwise create_user is awaited
CreateLookup(k) ==
    LET existing == mongo_get_user_by_email(users, FALSE, inflight[k].user.email, now)
        r == create_user_save(
                 user_model_create_after_lookup(existing, users, FALSE, inflight[k].user),
                 users)
    IN /\ Idle
       /\ inflight[k].pc = "lookup"
       /\ IF existing # {}
          THEN /\ resp' = Response("create_user", inflight[k].in, r)
               /\ inflight' = [inflight EXCEPT ![k] = [pc |-> "done"]]
          ELSE /\ resp' = resp
               /\ inflight' = [inflight EXCEPT ![k].pc = "insert"]
       /\ UNCHANGED <<users, generated, issued, now, bcrypt_strict, registered>>

\* MongoClient.create_user: insert_one reaches the collection, and the
\* request is answered
CreateInsert(k) ==
    LET r == create_user_save(
                 user_model_create_after_lookup({}, users, FALSE, inflight[k].user), users)
    IN /\ Idle
       /\ inflight[k].pc = "insert"
       /\ users' = r.docs
       /\ resp' = Response("create_user", inflight[k].in, r)
       /\ inflight' = [inflight EXCEPT ![k] = [pc |-> "done"]]
       /\ UNCHANGED <<generated, issued, now, bcrypt_strict, registered>>

\* a soft delete, reactivation or hard delete up to its write: get_by_id
\* returns, and the checks either end the request or let it go on
BeginChange(op, user_id, requesting_user_id) ==
    LET seen == {d \in users : d.id = user_id}
        r == change_after_read(op, seen, seen, user_id, requesting_user_id, now)
        in == [user_id |-> user_id, requesting_user_id |-> requesting_user_id]
    IN /\ Idle
       /\ Raised(r) \/ Len(inflight) < MaxRequests
       /\ IF Raised(r)
          THEN /\ resp' = Response(op, in, r)
               /\ inflight' = inflight
          ELSE /\ resp' = resp
               /\ inflight' = Append(inflight, [op |-> op, in |-> in,
                                                pc |-> "write", seen |-> seen])
       /\ UNCHANGED <<users, generated, issued, now, bcrypt_strict, registered>>

\* its write (replace_one or delete_one) reaches the collection, and the
\* request is answered
FinishChange(k) ==
    LET q == inflight[k]
        r == change_after_read(q.op, q.seen, users, q.in.user_id,
                               q.in.requesting_user_id, now)
    IN /\ Idle
       /\ q.pc = "write"
       /\ users' = r.docs
       /\ resp' = Response(q.op, q.in, r)
       /\ inflight' = [inflight EXCEPT ![k] = [pc |-> "done"]]
       /\ UNCHANGED <<generated, issued, now, bcrypt_strict, registered>>

\* an update up to the await that follows the read of its target: the
\* checks either end the request or leave it holding the entity it read
BeginUpdate(user_id, requesting_user_id, new_email, new_password, salt) ==
    LET r == update_user_read(users, FALSE, user_id, requesting_user_id,
                              new_email, new_password, now)
        in == [user_id |-> user_id, requesting_user_id |-> requesting_user_id,
               new_email |-> new_email, new_password |-> new_password]
    IN /\ Idle
       /\ Raised(r) \/ Len(inflight) < MaxRequests
       /\ IF Raised(r)
          THEN /\ resp' = Response("update_user", in, r)
               /\ inflight' = inflight
          ELSE /\ resp' = resp
               /\ inflight' = Append(inflight, [op |-> "update_user", in |-> in,
                                                pc |-> "save", user |-> r.val,
                                                salt |-> salt])
       /\ UNCHANGED <<users, generated, issued, now, bcrypt_strict, registered>>

\* the update goes on from its await to its answer
FinishUpdate(k) ==
    LET q == inflight[k]
        r == update_after_read(q.user, users, bcrypt_strict, q.in.new_email,
                               q.in.new_password, q.salt, now)
    IN /\ Idle
       /\ q.pc = "save"
       /\ users' = r.docs
       /\ resp' = Response("update_user", q.in, r)
       /\ registered' = IF Raised(r) \/ falsy(q.in.new_password) THEN registered
                        ELSE [registered EXCEPT ![q.in.user_id] =
                                 CHOOSE x \in q.in.new_password : TRUE]
       /\ inflight' = [inflight EXCEPT ![k] = [pc |-> "done"]]
       /\ UNCHANGED <<generated, issued, now, bcrypt_strict>>

NextRace ==
    \/ \E e \in {Email_a, Email_A_nl, Email_c}, p \in {Pw_p}, s \in Salts :
          BeginCreate(e, p, s)
    \/ \E k \in DOMAIN inflight : CreateLookup(k)
    \/ \E k \in DOMAIN inflight : CreateInsert(k)
    \/ \E op \in {"soft_delete", "reactivate_user", "hard_delete"},
          t \in IdInputs, r \in 1..MaxUsers : BeginChange(op, t, r)
    \/ \E k \in DOMAIN inflight : FinishChange(k)
    \/ \E t \in 1..MaxUsers, e \in {{Email_A_nl}, {Email_c}} : BeginUpdate(t, t, e, {}, 1)
    \/ \E k \in DOMAIN inflight : FinishUpdate(k)
    \/ Deliver

SpecRace == Init /\ [][NextRace]_vars

\* ------------------------------------------------- JWTHandler on its own
\* create_access_token and verify_token as pure functions of a clock that
\* advances minute by minute, so that both sides of the expiry are met
WrongKey(t) == jwt_encode(t.payload, "attacker-key")
WrongType(t) == jwt_encode([t.payload EXCEPT !.type = "refresh"], t.key)

\* what verify_token may be handed: tokens it issued, the same payloads
\* signed with another key or carrying another type, and a non-token
JwtTokenInputs ==
    issued \cup {WrongKey(t) : t \in issued} \cup {WrongType(t) : t \in issued}
           \cup {GarbageToken}

InitJwt ==
    /\ users = {}
    /\ generated = 0
    /\ issued = {}
    /\ now = 0
    /\ resp = NoResponse
    /\ bcrypt_strict = FALSE
    /\ registered = <<>>
    /\ inflight = <<>>

\* JWTHandler.create_access_token
IssueToken(user_id, email) ==
    /\ Idle
    /\ Cardinality(issued) < MaxTokens
    /\ issued' = issued \cup {create_access_token(user_id, email, now)}
    /\ UNCHANGED <<users, generated, now, resp, bcrypt_strict, registered, inflight>>

\* JWTHandler.verify_token
VerifyToken(token) ==
    /\ Idle
    /\ resp' = Response("verify_token", [token |-> token], verify_token(token, now))
    /\ UNCHANGED <<users, generated, issued, now, bcrypt_strict, registered, inflight>>

\* one minute passes
TickMinute ==
    /\ Idle
    /\ now < MaxClock
    /\ now' = now + 1
    /\ UNCHANGED <<users, generated, issued, resp, bcrypt_strict, registered, inflight>>

NextJwt ==
    \/ \E i \in 1..MaxUsers, e \in {Email_a, Email_c} : IssueToken(i, e)
    \/ \E t \in JwtTokenInputs : VerifyToken(t)
    \/ TickMinute
    \/ Deliver

SpecJwt == InitJwt /\ [][NextJwt]_vars

\* ------------------------------------------- one identity and its tokens
\* the life of one identity in steps shorter than a token's lifetime: it
\* registers, logs in, is changed, soft-deleted and reactivated, and presents
\* its tokens to the gate
TickShort ==
    /\ Idle
    /\ now + SessionStep <= MaxTime
    /\ now' = now + SessionStep
    /\ UNCHANGED <<users, generated, issued, resp, bcrypt_strict, registered, inflight>>

NextSession ==
    \/ CreateUser(Email_a, Pw_p, 1)
    \/ LoginUser(Email_a, Pw_p)
    \/ \E t \in issued : Authenticate(t)
    \/ \E e \in {{}, {Email_c}}, p \in {{}, {Pw_long_s}} : UpdateUser(1, 1, e, p, 1)
    \/ SoftDelete(1, 1)
    \/ Reactivate(1, 1)
    \/ TickShort
    \/ Deliver

SpecSession == Init /\ [][NextSession]_vars

\* ------------------------------------------- the read operations on their own
\* get-by-id and list as functions of the repository content: the repository
\* is drawn from a family of contents and only read afterwards
RECURSIVE Digits(_)
Digits(n) ==
    IF n < 10 THEN <<ToString(n)>> ELSE Append(Digits(n \div 10), ToString(n % 10))

\* the document of the i-th registered identity
QueryDoc(i, is_active) ==
    to_dict(User(i, <<"a">> \o Digits(i) \o <<"@", "b", ".", "c", "o">>,
                 bcrypt_hashpw(Pw_p, 1, FALSE).val, is_active, {0}, {0}, 0))

\* n identities of which those in `inactive` were soft-deleted
Repository(n, inactive) == {QueryDoc(i, i \notin inactive) : i \in 1..n}

\* every mix of active and inactive identities up to MaxListed of them, a
\* repository of ManyUsers, and one holding more than the count reads
QueryRepositories ==
    {Repository(n, off) : n \in 0..MaxListed, off \in SUBSET (1..MaxListed)}
        \cup {Repository(ManyUsers, {}), Repository(ManyUsers, {ManyUsers}),
              Repository(COUNT_LIMIT + 1, {})}

SkipInputs == {-1, 0, 1, PageSize}
LimitInputs == {0, 1, PageSize, MAX_LIMIT + 1}

InitQuery ==
    /\ users \in QueryRepositories
    /\ generated = Cardinality(users)
    /\ issued = {}
    /\ now = 0
    /\ resp = NoResponse
    /\ bcrypt_strict = FALSE
    /\ registered = [i \in 1..Cardinality(users) |-> Pw_p]
    /\ inflight = <<>>

\* GET /{user_id} -> UserController.get_user_by_id
GetUserById(user_id, requesting_user_id) ==
    /\ Idle
    /\ resp' = Response("get_user_by_id",
                        [user_id |-> user_id, requesting_user_id |-> requesting_user_id],
                        get_user_by_id_execute(users, FALSE, user_id,
                                               requesting_user_id, now))
    /\ UNCHANGED <<users, generated, issued, now, bcrypt_strict, registered, inflight>>

\* GET / -> UserController.list_users
ListUsers(requesting_user_id, skip, limit) ==
    /\ Idle
    /\ resp' = Response("list_users",
                        [requesting_user_id |-> requesting_user_id,
                         skip |-> skip, limit |-> limit],
                        controller_list_users(users, FALSE, requesting_user_id,
                                              skip, limit, now))
    /\ UNCHANGED <<users, generated, issued, now, bcrypt_strict, registered, inflight>>

NextQuery ==
    \/ \E t \in 0..(MaxListed + 1), r \in 0..MaxListed : GetUserById(t, r)
    \/ \E r \in 0..MaxListed, s \in SkipInputs, l \in LimitInputs : ListUsers(r, s, l)
    \/ Deliver

SpecQuery == InitQuery /\ [][NextQuery]_vars

\* ------------------------------------------------ the storage backend failing
\* the requests that read the repository, served while the collection
\* operations raise (failing) or not
LoginOn(failing, email, password) ==
    LET r == login_user_execute(users, failing, bcrypt_strict, email, password, now)
    IN /\ Idle
       /\ IF Raised(r) THEN TRUE
          ELSE r.val.access_token \in issued \/ Cardinality(issued) < MaxTokens
       /\ issued' = IF Raised(r) THEN issued ELSE issued \cup {r.val.access_token}
       /\ resp' = Response("login_user",
                           [failing |-> failing, email |-> email, password |-> password], r)
       /\ UNCHANGED <<users, generated, now, bcrypt_strict, registered, inflight>>

AuthenticateOn(failing, token) ==
    /\ Idle
    /\ resp' = Response("get_current_user", [failing |-> failing, token |-> token],
                        get_current_user(users, failing, token, now))
    /\ UNCHANGED <<users, generated, issued, now, bcrypt_strict, registered, inflight>>

GetUserByIdOn(failing, user_id, requesting_user_id) ==
    /\ Idle
    /\ resp' = Response("get_user_by_id",
                        [failing |-> failing, user_id |-> user_id,
                         requesting_user_id |-> requesting_user_id],
                        get_user_by_id_execute(users, failing, user_id,
                                               requesting_user_id, now))
    /\ UNCHANGED <<users, generated, issued, now, bcrypt_strict, registered, inflight>>

ListUsersOn(failing, requesting_user_id, skip, limit) ==
    /\ Idle
    /\ resp' = Response("list_users",
                        [failing |-> failing, requesting_user_id |-> requesting_user_id,
                         skip |-> skip, limit |-> limit],
                        controller_list_users(users, failing, requesting_user_id,
                                              skip, limit, now))
    /\ UNCHANGED <<users, generated, issued, now, bcrypt_strict, registered, inflight>>

NextFault ==
    \/ \E f \in BOOLEAN, i \in 1..(MaxListed + 1), p \in {Pw_p, Pw_short} :
          LoginOn(f, QueryDoc(i, TRUE).email, p)
    \/ \E f \in BOOLEAN, i \in 1..(MaxListed + 1) :
          AuthenticateOn(f, create_access_token(i, QueryDoc(i, TRUE).email, 0))
    \/ \E f \in BOOLEAN, t \in 0..(MaxListed + 1), r \in 0..MaxListed :
          GetUserByIdOn(f, t, r)
    \/ \E f \in BOOLEAN, r \in 0..MaxListed, l \in {0, 1, PageSize} : ListUsersOn(f, r, 0, l)
    \/ Deliver

SpecFault == InitQuery /\ [][NextFault]_vars

\* ------------------------------------------------ PasswordHasher on its own
Pw_q == << <<"q", 6>> >>
\* exactly as long as bcrypt reads
Pw_r72 == << <<"r", 72>> >>

HashInputs == PasswordInputs \cup {Pw_q, Pw_r72}

InitHash ==
    /\ users = {}
    /\ generated = 0
    /\ issued = {}
    /\ now = 0
    /\ resp = NoResponse
    /\ bcrypt_strict \in BOOLEAN
    /\ registered = <<>>
    /\ inflight = <<>>

\* PasswordHasher.hash_password
HashPassword(password, salt) ==
    /\ Idle
    /\ resp' = Response("hash_password", [password |-> password],
                        hash_password(password, salt, bcrypt_strict))
    /\ UNCHANGED <<users, generated, issued, now, bcrypt_strict, registered, inflight>>

\* PasswordHasher.verify_password against the hash of a password
VerifyPassword(password, hashed_of, salt) ==
    LET h == hash_password(hashed_of, salt, bcrypt_strict)
    IN /\ Idle
       /\ ~Raised(h)
       /\ resp' = Response("verify_password",
                           [password |-> password, hashed_of |-> hashed_of,
                            hashed_password |-> h.val],
                           Return(verify_password(password, h.val, bcrypt_strict)))
       /\ UNCHANGED <<users, generated, issued, now, bcrypt_strict, registered, inflight>>

NextHash ==
    \/ \E p \in HashInputs, s \in Salts : HashPassword(p, s)
    \/ \E p \in HashInputs, q \in HashInputs, s \in Salts : VerifyPassword(p, q, s)
    \/ Deliver

SpecHash == InitHash /\ [][NextHash]_vars

\* ================================================================ properties
\* vocabulary of the properties
RawOps == {"update_user", "soft_delete", "hard_delete", "reactivate_user"}
Succeeded == resp.exc = {}
TheExc == CHOOSE e \in resp.exc : TRUE
StoredWithId(docs, i) == {d \in docs : d.id = i}
StoredWithEmail(docs, e) == {d \in docs : d.email = e}
\* the signature is the server's, the type is access and the expiry lies ahead
Verifies(t, clock) ==
    /\ t.wellformed
    /\ t.key = JWT_SECRET_KEY
    /\ t.payload.type = "access"
    /\ clock < t.payload.exp

\* C1: the gate returns an identity only if the presented token verifies
\* (server signature, type access, not expired) and, at the time of the
\* request, its subject is stored and active; the identity returned is that
\* subject. So a token whose subject was soft- or hard-deleted is rejected.
C1_GateSound ==
    (resp.op = "get_current_user" /\ Succeeded) =>
        LET t == resp.in.token
        IN /\ Verifies(t, now)
           /\ \E d \in users : /\ d.id = t.payload.user_id
                               /\ d.is_active
                               /\ resp.val.id = d.id
                               /\ resp.val.email = d.email

\* an issued token that still verifies is rejected because its subject was
\* deleted in the meantime
C1_Witness ==
    /\ resp.op = "get_current_user"
    /\ ~Succeeded
    /\ resp.in.token \in issued
    /\ Verifies(resp.in.token, now)
    /\ \A d \in StoredWithId(users, resp.in.token.payload.user_id) : ~d.is_active

\* C2: update, soft delete, hard delete and reactivate called with a target
\* other than the requester always end in an error and leave the stored
\* identities exactly as they were.
C2_OthersNeverMutate ==
    [][(/\ resp'.op \in RawOps
        /\ resp'.in.user_id # resp'.in.requesting_user_id)
       => (resp'.exc # {} /\ users' = users)]_vars

\* an active requester names another stored identity and is refused
C2_Witness ==
    /\ resp.op = "hard_delete"
    /\ resp.in.user_id # resp.in.requesting_user_id
    /\ StoredWithId(users, resp.in.user_id) # {}
    /\ \E d \in StoredWithId(users, resp.in.requesting_user_id) : d.is_active
    /\ ~Succeeded
    /\ TheExc.class = "ValueError"

\* C3: whichever step of the gate fails (missing or malformed token, bad
\* signature, expiry, wrong type, unknown subject, inactive subject), the
\* caller receives the same generic rejection.
C3_GateRejectionUniform ==
    (resp.op = "get_current_user" /\ ~Succeeded) =>
        /\ TheExc.status_code = 401
        /\ TheExc.detail = "Could not validate credentials"
        /\ TheExc.headers = {<<"WWW-Authenticate", "Bearer">>}

\* C4: an identity is created active; its flag goes from active to inactive
\* only by a successful soft delete of it, which requires it active, and
\* back only by a successful reactivate of it, which requires it inactive;
\* only a hard delete removes it, and a removed identity never comes back.
C4_ActiveFlagMachine ==
    [][\A i \in 1..MaxUsers :
        LET before == StoredWithId(users, i)
            after == StoredWithId(users', i)
            done(op) == /\ resp'.op = op
                        /\ resp'.exc = {}
                        /\ resp'.in.user_id = i
            active(ds) == ds # {} /\ \A d \in ds : d.is_active
            inactive(ds) == ds # {} /\ \A d \in ds : ~d.is_active
        IN /\ Cardinality(after) <= 1
           /\ (before = {} /\ after # {}) =>
                  /\ i > generated
                  /\ resp'.op = "create_user" /\ resp'.exc = {}
                  /\ active(after)
           /\ (i <= generated /\ before = {}) => after = {}
           /\ (active(before) /\ inactive(after)) => done("soft_delete")
           /\ (inactive(before) /\ active(after)) => done("reactivate_user")
           /\ (before # {} /\ after = {}) => done("hard_delete")
           /\ done("soft_delete") => (active(before) /\ inactive(after))
           /\ done("reactivate_user") => (inactive(before) /\ active(after))
           /\ done("hard_delete") => (before # {} /\ after = {})
      ]_vars

\* an identity that was soft-deleted has just been reactivated
C4_Witness ==
    /\ resp.op = "reactivate_user"
    /\ Succeeded
    /\ \E d \in StoredWithId(users, resp.in.user_id) :
           d.is_active /\ d.updated_at # d.created_at

\* C5: once create has succeeded for an email and a password, a login with
\* the same raw email and password, at any later time with no operation on
\* the identity in between, succeeds, and its token verifies to a payload
\* whose user_id is the created identity's id.
C5_CreateThenLogin ==
    (resp.op = "create_user" /\ Succeeded) =>
        \A later \in now..MaxTime :
            LET r == login_user_execute(users, FALSE, bcrypt_strict, resp.in.email,
                                        resp.in.password, later)
                v == verify_token(r.val.access_token, later)
            IN /\ ~Raised(r)
               /\ ~Raised(v)
               /\ v.val # {}
               /\ \A payload \in v.val : payload.user_id = resp.val.id

\* an identity registered with an email written in capitals has logged in
\* with that same spelling and holds a token naming it
C5_Witness ==
    /\ resp.op = "login_user"
    /\ Succeeded
    /\ resp.in.email = Email_A_nl
    /\ \E d \in users :
           /\ resp.in.password = registered[d.id]
           /\ verify_token(resp.val.access_token, now).val
                  = {resp.val.access_token.payload}
           /\ resp.val.access_token.payload.user_id = d.id

\* what create accepts as an email and as a password
WellFormedEmail(e) == ~blank_str(e) /\ is_valid_email(e)
AcceptablePassword(p) == p # <<>> /\ ~pw_blank(p) /\ is_valid_password(p)
IsClass(excs, class) == excs # {} /\ \A e \in excs : e.class = class

\* C6 as stated: while an identity with normalized email e is stored (active
\* or not), create with any email that normalizes to e and any password
\* fails with Conflict (UserAlreadyExistsException) and stores nothing.
C6_DuplicateAnyInput ==
    [][(/\ resp'.op = "create_user"
        /\ StoredWithEmail(users, normalize_email(resp'.in.email)) # {})
       => (/\ IsClass(resp'.exc, "UserAlreadyExistsException")
           /\ \A e \in resp'.exc : IsInstance(e, "ConflictException")
           /\ users' = users)]_vars

\* C6 amended: while an identity with normalized email e is stored (active
\* or not), create with an email that normalizes to e stores nothing and
\* fails: with Conflict (UserAlreadyExistsException) when the email is
\* well-formed and the password is non-blank and of 6 to 128 characters,
\* with a validation error otherwise.
C6_DuplicateValidInput ==
    [][(/\ resp'.op = "create_user"
        /\ StoredWithEmail(users, normalize_email(resp'.in.email)) # {})
       => (/\ users' = users
           /\ IF WellFormedEmail(resp'.in.email) /\ AcceptablePassword(resp'.in.password)
              THEN /\ IsClass(resp'.exc, "UserAlreadyExistsException")
                   /\ \A e \in resp'.exc : IsInstance(e, "ConflictException")
              ELSE IsClass(resp'.exc, "ValidationException"))]_vars

\* the email of a soft-deleted identity, written in capitals, is refused
C6_Witness ==
    /\ resp.op = "create_user"
    /\ resp.in.email = Email_A_nl
    /\ IsClass(resp.exc, "UserAlreadyExistsException")
    /\ \E d \in StoredWithEmail(users, Email_a) : ~d.is_active

\* C7: a login with a well-formed email and a non-blank password fails with
\* the same InvalidCredentialsException, and no token, whether no identity
\* holds the email or an active identity holds it and the password is not
\* the one it was registered with.
C7_WrongPasswordLikeUnknownEmail ==
    (/\ resp.op = "login_user"
     /\ WellFormedEmail(resp.in.email)
     /\ resp.in.password # <<>> /\ ~pw_blank(resp.in.password)
     /\ LET held == StoredWithEmail(users, normalize_email(resp.in.email))
        IN \/ held = {}
           \/ \E d \in held : d.is_active /\ resp.in.password # registered[d.id])
    => (resp.exc = {InvalidCredentialsException} /\ resp.val = {})

\* C8: while an identity is stored inactive (soft-deleted and not yet
\* reactivated), a login with its email and the password it was registered
\* with fails with UserInactiveException, which is not an
\* InvalidCredentialsException, and issues no token.
C8_InactiveLoginRefused ==
    (/\ resp.op = "login_user"
     /\ WellFormedEmail(resp.in.email))
    => \A d \in StoredWithEmail(users, normalize_email(resp.in.email)) :
          (~d.is_active /\ resp.in.password = registered[d.id]) =>
              /\ resp.exc = {UserInactiveException(d.id)}
              /\ \A e \in resp.exc : ~IsInstance(e, "AuthenticationException")
              /\ resp.val = {}

\* the owner of a soft-deleted identity presents the right credentials
C8_Witness ==
    /\ resp.op = "login_user"
    /\ IsClass(resp.exc, "UserInactiveException")
    /\ \E d \in StoredWithEmail(users, normalize_email(resp.in.email)) :
           ~d.is_active /\ resp.in.password = registered[d.id]

\* C9: verify_token never raises; it returns the payload, which carries
\* user_id and email, exactly when the token was produced by
\* create_access_token with the server's secret, has type access, and the
\* current time is before its issue time plus the lifetime; otherwise null.
C9_VerifyTokenExact ==
    resp.op = "verify_token" =>
        LET t == resp.in.token
            valid == /\ t \in issued
                     /\ t.wellformed
                     /\ t.key = JWT_SECRET_KEY
                     /\ t.payload.type = "access"
                     /\ now < t.payload.iat + JWT_EXPIRATION_TIME_MINUTES
        IN /\ Succeeded
           /\ resp.val = IF valid THEN {t.payload} ELSE {}
           /\ \A payload \in resp.val :
                  payload.user_id \in 1..MaxUsers /\ payload.email # <<>>

\* an issued token is presented at the very minute its lifetime ends
C9_Witness ==
    /\ resp.op = "verify_token"
    /\ resp.in.token \in issued
    /\ now = resp.in.token.payload.iat + JWT_EXPIRATION_TIME_MINUTES
    /\ resp.val = {}

\* C10: an update of an active identity by itself, with a well-formed email
\* no other identity holds and/or a valid password, succeeds; afterwards the
\* stored email is the normalized new one, a login with the new password
\* succeeds and a login with the old one fails with InvalidCredentials.
C10_SelfUpdateApplies ==
    [][LET id == resp'.in.user_id
           e == resp'.in.new_email
           p == resp'.in.new_password
           stored == CHOOSE d \in StoredWithId(users', id) : TRUE
           login(pw) == login_user_execute(users', FALSE, bcrypt_strict,
                                           stored.email, pw, now)
       IN (/\ resp'.op = "update_user"
           /\ id = resp'.in.requesting_user_id
           /\ \E d \in StoredWithId(users, id) : d.is_active
           /\ ~(falsy(e) /\ falsy(p))
           /\ \A x \in e \ {<<>>} :
                  /\ WellFormedEmail(x)
                  /\ \A d \in StoredWithEmail(users, normalize_email(x)) : d.id = id
           /\ \A x \in p \ {<<>>} : AcceptablePassword(x))
          => (/\ resp'.exc = {}
              /\ \A x \in e \ {<<>>} : stored.email = normalize_email(x)
              /\ \A x \in p \ {<<>>} :
                     /\ ~Raised(login(x))
                     /\ x # registered[id] =>
                            login(registered[id]).exc = {InvalidCredentialsException})
      ]_vars

\* C11: an update that names a target and a requester but supplies neither
\* a new email nor a new password (absent or empty) fails with BusinessRule
\* without reading or writing the repository: the outcome is the same
\* whatever the repository holds and even when the repository is failing,
\* and the stored identities are untouched.
C11_EmptyUpdateBeforeRepository ==
    [][(/\ resp'.op = "update_user"
        /\ resp'.in.user_id # 0
        /\ resp'.in.requesting_user_id # 0
        /\ falsy(resp'.in.new_email)
        /\ falsy(resp'.in.new_password))
       => (/\ users' = users
           /\ resp'.exc # {}
           /\ \A e \in resp'.exc : /\ e.class = "BusinessRuleException"
                                   /\ IsInstance(e, "BusinessRuleException")
           /\ \A docs \in {users, {}}, failing \in BOOLEAN, s \in Salts :
                  LET r == update_user_execute(docs, failing, bcrypt_strict,
                                               resp'.in.user_id,
                                               resp'.in.requesting_user_id,
                                               resp'.in.new_email,
                                               resp'.in.new_password, s, now)
                  IN r.exc = resp'.exc /\ r.docs = docs)]_vars

\* an update with an empty email and no password, by a requester that is not
\* stored: a read of the repository would have refused the requester first
C11_Witness ==
    /\ resp.op = "update_user"
    /\ resp.in.new_email = {<<>>}
    /\ resp.in.new_password = {}
    /\ resp.in.requesting_user_id # 0
    /\ resp.in.user_id # 0
    /\ StoredWithId(users, resp.in.requesting_user_id) = {}
    /\ IsClass(resp.exc, "BusinessRuleException")

\* C12: reactivate of an identity that is active, and soft delete of an
\* identity that is inactive, requested by the identity itself, fail with an
\* error of the BusinessRule kind and leave the stored identity unchanged.
C12_WrongStateIsBusinessRule ==
    [][\A i \in 1..MaxUsers :
        (/\ resp'.op \in {"reactivate_user", "soft_delete"}
         /\ resp'.in = [user_id |-> i, requesting_user_id |-> i]
         /\ \E d \in StoredWithId(users, i) :
                \/ resp'.op = "reactivate_user" /\ d.is_active
                \/ resp'.op = "soft_delete" /\ ~d.is_active)
        => (/\ users' = users
            /\ resp'.exc # {}
            /\ \A e \in resp'.exc : IsInstance(e, "BusinessRuleException"))]_vars

\* C13: once a hard delete of an identity by itself has succeeded, whether
\* the identity was active or not, its record is gone: get_by_id gives
\* nothing, a login with its former email and password fails with
\* InvalidCredentials, and no later operation, reactivate included, stores
\* an identity with that id again.
C13_HardDeleteIsFinal ==
    [][\A i \in 1..MaxUsers :
        LET before == StoredWithId(users, i)
            after == StoredWithId(users', i)
        IN /\ (/\ resp'.op = "hard_delete"
               /\ resp'.exc = {}
               /\ resp'.in = [user_id |-> i, requesting_user_id |-> i])
              => (/\ before # {}
                  /\ after = {}
                  /\ user_model_get_by_id(users', FALSE, i, now) = {}
                  /\ \A d \in before :
                         login_user_execute(users', FALSE, bcrypt_strict, d.email,
                                            registered[i], now).exc
                             = {InvalidCredentialsException})
           /\ (i <= generated /\ before = {}) => after = {}
      ]_vars

\* the owner of a removed identity asks for its reactivation and is refused
C13_Witness ==
    /\ resp.op = "reactivate_user"
    /\ resp.in.user_id = resp.in.requesting_user_id
    /\ resp.in.user_id \in 1..generated
    /\ StoredWithId(users, resp.in.user_id) = {}
    /\ ~Succeeded

\* the number of stored identities that are active
ActiveStored == Cardinality({d \in users : d.is_active})
Min(a, b) == IF a < b THEN a ELSE b
Max(a, b) == IF a > b THEN a ELSE b

\* C14: whatever the repository holds, a listing by an active requester
\* with a valid skip and limit returns only active identities, and its
\* total is the number of active identities stored.
C14_ListActiveOnly ==
    (resp.op = "list_users" /\ Succeeded) =>
        /\ \A k \in 1..Len(resp.val.users) : resp.val.users[k].is_active
        /\ resp.val.total = ActiveStored

\* C14 for repositories of at most COUNT_LIMIT identities
C14_ListActiveOnlyWithinCount ==
    (resp.op = "list_users" /\ Succeeded /\ Cardinality(users) <= COUNT_LIMIT) =>
        /\ \A k \in 1..Len(resp.val.users) : resp.val.users[k].is_active
        /\ resp.val.total = ActiveStored

\* C15: when the N stored identities are all active, a listing with skip
\* s >= 0 and limit l in 1..100 returns min(l, max(0, N - s)) items, total N
\* and has_more = (s + items < N).
C15_PageArithmetic ==
    (/\ resp.op = "list_users"
     /\ Succeeded
     /\ \A d \in users : d.is_active)
    => LET N == Cardinality(users)
           s == resp.in.skip
           l == resp.in.limit
           items == Len(resp.val.users)
       IN /\ s >= 0 /\ l \in 1..100
          /\ items = Min(l, Max(0, N - s))
          /\ resp.val.total = N
          /\ resp.val.has_more = (s + items < N)

\* C15 for repositories of at most COUNT_LIMIT identities
C15_PageArithmeticWithinCount ==
    Cardinality(users) <= COUNT_LIMIT => C15_PageArithmetic

C17_HashVerify ==
    /\ (resp.op = "hash_password" /\ AcceptablePassword(resp.in.password)) =>
           /\ Succeeded
           /\ resp.val # resp.in.password
           /\ verify_password(resp.in.password, resp.val, bcrypt_strict)
    /\ (resp.op = "verify_password" /\ AcceptablePassword(resp.in.hashed_of)) =>
           resp.val = (resp.in.password = resp.in.hashed_of)

\* C17 for passwords of at most BCRYPT_MAX_BYTES characters
C17_HashVerifyWithin72 ==
    (/\ resp.op \in {"hash_password", "verify_password"}
     /\ pw_len(resp.in.password) <= BCRYPT_MAX_BYTES
     /\ resp.op = "verify_password" => pw_len(resp.in.hashed_of) <= BCRYPT_MAX_BYTES)
    => C17_HashVerify

\* C18. An identity that was soft-deleted is brought back to Active by its
\* owner through the gated API: whenever POST /{user_id}/reactivate is
\* called for a stored inactive identity with an issued, unexpired token of
\* that identity, reactivate_user is reached, the request succeeds and the
\* stored active flag is true again.
C18_OwnerReactivatesThroughRoute ==
    [][(/\ resp'.op = "route_reactivate_user"
        /\ resp'.in.token \in issued
        /\ Verifies(resp'.in.token, now)
        /\ resp'.in.token.payload.user_id = resp'.in.user_id
        /\ \E d \in StoredWithId(users, resp'.in.user_id) : ~d.is_active)
       => (/\ resp'.exc = {}
           /\ \E d \in StoredWithId(users', resp'.in.user_id) : d.is_active)]_vars

\* the request sequence the statement asks for is reached: the owner of an
\* inactive identity calls the route with an unexpired token of it
C18_OwnerAsks ==
    /\ resp.op = "route_reactivate_user"
    /\ resp.in.token \in issued
    /\ Verifies(resp.in.token, now)
    /\ resp.in.token.payload.user_id = resp.in.user_id
    /\ \E d \in StoredWithId(users, resp.in.user_id) : ~d.is_active

\* what the routes do instead: no call of the reactivate route succeeds, and
\* under the gated API no stored identity goes from inactive to active
C18_RouteNeverReactivates ==
    [][/\ resp'.op = "route_reactivate_user" => resp'.exc # {}
       /\ \A d \in users : ~d.is_active =>
             \A e \in StoredWithId(users', d.id) : ~e.is_active]_vars

\* C19. When two create requests for the same normalized email run
\* concurrently and both pass the use case's existence check before either
\* writes, exactly one identity with that email ends up stored and the losing
\* request fails with Conflict: a create request that had passed the check
\* and is answered while another identity holds its email leaves exactly one
\* holder and raises an exception of the Conflict kind.
C19_LoserGetsConflict ==
    [][\A k \in DOMAIN inflight :
          (/\ inflight[k].pc \in {"lookup", "insert"}
           /\ inflight'[k].pc = "done"
           /\ StoredWithEmail(users, inflight[k].user.email) # {})
          => (/\ Cardinality(StoredWithEmail(users', inflight[k].user.email)) = 1
              /\ resp'.exc # {}
              /\ \A e \in resp'.exc : IsInstance(e, "ConflictException"))]_vars

\* two requests for one email are both past the use case's check, and
\* nothing is stored yet
C19_BothPassedCheck ==
    \E j, k \in DOMAIN inflight :
        /\ j # k
        /\ inflight[j].pc \in {"lookup", "insert"}
        /\ inflight[k].pc \in {"lookup", "insert"}
        /\ inflight[j].user.email = inflight[k].user.email
        /\ StoredWithEmail(users, inflight[k].user.email) = {}

\* what the code does: the loser leaves exactly one holder of the email, and
\* is answered with an Infrastructure exception that wraps the conflict
C19_LoserGetsInfrastructure ==
    [][\A k \in DOMAIN inflight :
          (/\ inflight[k].pc \in {"lookup", "insert"}
           /\ inflight'[k].pc = "done"
           /\ StoredWithEmail(users, inflight[k].user.email) # {})
          => (/\ Cardinality(StoredWithEmail(users', inflight[k].user.email)) = 1
              /\ resp'.exc # {}
              /\ \A e \in resp'.exc :
                    /\ e.class = "InfrastructureException"
                    /\ e.message.args[1].fmt = "Usuario con email {} ya existe")]_vars

\* C20. In every reachable state, under any interleaving of create, update,
\* soft delete, reactivate and hard delete requests, no two stored identities
\* have the same normalized (lower-cased, trimmed) email.
C20_EmailUnique ==
    \A d \in users : \A e \in users :
        d # e => normalize_email(d.email) # normalize_email(e.email)

\* a create request is about to insert an email that a concurrent request
\* has stored since its lookup
C20_Witness ==
    \E k \in DOMAIN inflight :
        /\ inflight[k].pc = "insert"
        /\ StoredWithEmail(users, inflight[k].user.email) # {}

\* C21. If UpdateUserUseCase.execute fails at any step, the stored identities
\* are unchanged; a successful execute performs exactly one repository write,
\* issued after every supplied field has been applied: the collection differs
\* from the one before only in the target's record, replaced once.
C21_UpdateAllOrNothing ==
    [][resp'.op = "update_user" =>
          IF resp'.exc # {} THEN users' = users
          ELSE \E d \in StoredWithId(users, resp'.in.user_id) :
                  \E e \in StoredWithId(users', resp'.in.user_id) :
                      users' = (users \ {d}) \cup {e}]_vars

\* an active identity asked for a well-formed new email that nobody holds
\* together with a new password outside 6..128 characters: the request
\* failed and the stored email is still the old one
C21_Witness ==
    /\ resp.op = "update_user"
    /\ resp.exc # {}
    /\ resp.in.user_id = resp.in.requesting_user_id
    /\ \E x \in resp.in.new_email :
          /\ WellFormedEmail(x)
          /\ StoredWithEmail(users, normalize_email(x)) = {}
    /\ \E x \in resp.in.new_password : ~AcceptablePassword(x)
    /\ \E d \in StoredWithId(users, resp.in.user_id) :
          d.is_active /\ d.updated_at = d.created_at

C23_DeletedStaysAbsent ==
    [][/\ \A d \in users' :
             StoredWithId(users, d.id) = {}
             => \E k \in DOMAIN inflight :
                   /\ inflight[k].pc = "insert"
                   /\ inflight'[k].pc = "done"
                   /\ inflight[k].user.id = d.id
       /\ \A k \in DOMAIN inflight :
             (/\ inflight[k].pc \in {"write", "save"}
              /\ inflight'[k].pc = "done"
              /\ StoredWithId(users, inflight[k].in.user_id) = {})
             => /\ StoredWithId(users', inflight[k].in.user_id) = {}
                /\ resp'.exc # {}]_vars

\* a soft delete that had read its target went on after a hard delete of the
\* target had completed: its write found nothing, it was answered with the
\* error of the repository, and the record is absent
C23_Witness ==
    /\ resp.op = "soft_delete"
    /\ \E e \in resp.exc : e.class = "InfrastructureException"
    /\ resp.in.user_id \in 1..generated
    /\ StoredWithId(users, resp.in.user_id) = {}

\* C25. For any password that is not the account's password, a login with a
\* well-formed email gives the same outcome whether the email is
\* unregistered, belongs to an active identity or belongs to an inactive
\* identity: the outcome is the one the same request has when nothing is
\* stored.
C25_LoginHidesRegistration ==
    (/\ resp.op = "login_user"
     /\ WellFormedEmail(resp.in.email)
     /\ resp.in.password # <<>> /\ ~pw_blank(resp.in.password)
     /\ \A d \in StoredWithEmail(users, normalize_email(resp.in.email)) :
           resp.in.password # registered[d.id])
    => LET unregistered == login_user_execute({}, FALSE, bcrypt_strict, resp.in.email,
                                              resp.in.password, now)
       IN resp.exc = unregistered.exc /\ resp.val = unregistered.val

\* the same, for passwords that differ from the account's within their first
\* 72 bytes and identities that are active: here the outcomes do agree
C25_LoginHidesActiveRegistration ==
    (/\ resp.op = "login_user"
     /\ WellFormedEmail(resp.in.email)
     /\ resp.in.password # <<>> /\ ~pw_blank(resp.in.password)
     /\ \A d \in StoredWithEmail(users, normalize_email(resp.in.email)) :
           /\ d.is_active
           /\ pw_prefix(resp.in.password, BCRYPT_MAX_BYTES)
                  # pw_prefix(registered[d.id], BCRYPT_MAX_BYTES))
    => LET unregistered == login_user_execute({}, FALSE, bcrypt_strict, resp.in.email,
                                              resp.in.password, now)
       IN resp.exc = unregistered.exc /\ resp.val = unregistered.val

\* a login with a password that is not the account's was answered for an
\* inactive identity
C25_InactiveAsked ==
    /\ resp.op = "login_user"
    /\ resp.in.password = Pw_short
    /\ \E d \in StoredWithEmail(users, normalize_email(resp.in.email)) :
          ~d.is_active /\ registered[d.id] = Pw_p
    /\ resp.exc = {UserInactiveException(
                      (CHOOSE d \in StoredWithEmail(users, normalize_email(resp.in.email)) :
                           TRUE).id)}

\* C27. While an identity is soft-deleted its email stays reserved: a create
\* with that email fails with Conflict; after the identity is hard-deleted, a
\* create with that email succeeds and the new identity has an id different
\* from the removed one.  Stated for every create request that nothing but
\* the email could stop (it succeeds on an empty repository): it fails with
\* Conflict and stores nothing while any identity, active or not, holds the
\* normalized email, and otherwise it succeeds under an id never used before.
C27_EmailReservedUntilHardDelete ==
    [][(/\ resp'.op = "create_user"
        /\ ~Raised(create_user_execute({}, FALSE, bcrypt_strict, resp'.in.email,
                                       resp'.in.password, generated + 1, 1, now)))
       => IF StoredWithEmail(users, normalize_email(resp'.in.email)) # {}
          THEN /\ resp'.exc # {}
               /\ \A e \in resp'.exc : IsInstance(e, "ConflictException")
               /\ users' = users
          ELSE /\ resp'.exc = {}
               /\ resp'.val.id > generated
               /\ \A d \in users : d.id # resp'.val.id
               /\ StoredWithId(users', resp'.val.id) # {}]_vars

\* an identity that had logged in was removed for good, and a create with its
\* email has succeeded under another id
C27_Witness ==
    /\ resp.op = "create_user"
    /\ resp.exc = {}
    /\ \E t \in issued :
          /\ t.payload.email = resp.val.email
          /\ t.payload.user_id # resp.val.id
          /\ StoredWithId(users, t.payload.user_id) = {}
    /\ StoredWithId(users, resp.val.id) # {}

\* a create with the email of a soft-deleted identity has been refused
C27_ReservedWhileInactive ==
    /\ resp.op = "create_user"
    /\ \E e \in resp.exc : IsInstance(e, "ConflictException")
    /\ \E d \in StoredWithEmail(users, normalize_email(resp.in.email)) : ~d.is_active

\* C28. A token is accepted by the gate at every moment between its issuance
\* and its expiry at which its subject exists and is active, regardless of
\* what happened to the subject in between: whenever an issued token that
\* has not expired is presented while its subject is stored and active, the
\* gate returns that subject.
C28_TokenOutlivesChanges ==
    (/\ resp.op = "get_current_user"
     /\ resp.in.token \in issued
     /\ Verifies(resp.in.token, now)
     /\ \E d \in StoredWithId(users, resp.in.token.payload.user_id) : d.is_active)
    => (Succeeded /\ resp.val.id = resp.in.token.payload.user_id)

\* the gate accepted a token whose subject was soft-deleted and reactivated
\* after the token had been issued
C28_Witness ==
    /\ resp.op = "get_current_user"
    /\ Succeeded
    /\ resp.in.token \in issued
    /\ resp.in.token.payload.iat < resp.val.updated_at
    /\ resp.val.created_at < resp.val.updated_at

\* C29. Given a well-formed, unused email, create accepts a password if and
\* only if its length is between 6 and 128 characters inclusive: every
\* password of that length is accepted and stored, every other password is
\* rejected with a ValidationException and nothing is stored.
C29_PasswordLengthDecides ==
    [][(/\ resp'.op = "create_user"
        /\ WellFormedEmail(resp'.in.email)
        /\ StoredWithEmail(users, normalize_email(resp'.in.email)) = {})
       => IF /\ pw_len(resp'.in.password) >= MIN_PASSWORD_LEN
             /\ pw_len(resp'.in.password) <= MAX_PASSWORD_LEN
          THEN /\ resp'.exc = {}
               /\ StoredWithId(users', resp'.val.id) # {}
          ELSE /\ IsClass(resp'.exc, "ValidationException")
               /\ users' = users]_vars

\* what the code does: the length decides only for passwords that are not
\* all whitespace and that the installed bcrypt is able to hash
C29_PasswordLengthAndMore ==
    [][(/\ resp'.op = "create_user"
        /\ WellFormedEmail(resp'.in.email)
        /\ StoredWithEmail(users, normalize_email(resp'.in.email)) = {})
       => IF /\ pw_len(resp'.in.password) >= MIN_PASSWORD_LEN
             /\ pw_len(resp'.in.password) <= MAX_PASSWORD_LEN
             /\ ~pw_blank(resp'.in.password)
          THEN IF bcrypt_strict /\ pw_len(resp'.in.password) > BCRYPT_MAX_BYTES
               THEN IsClass(resp'.exc, "InfrastructureException") /\ users' = users
               ELSE resp'.exc = {} /\ StoredWithId(users', resp'.val.id) # {}
          ELSE /\ IsClass(resp'.exc, "ValidationException")
               /\ users' = users]_vars

\* the ids stored in a collection, each with the creation time of its record
Births(docs) == {<<d.id, d.created_at>> : d \in docs}

\* C30. Once an identity is created, no operation changes the id or the
\* created_at of its stored record: a create only adds a record, under the
\* newly generated id; a hard delete only removes records; every other
\* request leaves the stored ids and their creation times as they were.
C30_IdAndBirthFixed ==
    [][/\ resp'.op = "create_user" =>
             /\ users \subseteq users'
             /\ \A d \in users' \ users : d.id = generated + 1
       /\ resp'.op = "hard_delete" => users' \subseteq users
       /\ resp'.op \notin {"create_user", "hard_delete"} => Births(users') = Births(users)
      ]_vars

\* a record created earlier was rewritten by a soft delete and by a
\* reactivation, and still carries its id and its creation time
C30_Witness ==
    /\ resp.op = "reactivate_user"
    /\ Succeeded
    /\ \E d \in StoredWithId(users, resp.in.user_id) :
          /\ d.created_at = isoformat(0)
          /\ d.updated_at = isoformat(TickStep)

\* the ids a client collects by asking for the pages at skip, skip + limit,
\* ... until a response has has_more = false
RECURSIVE PagesFrom(_, _, _, _)
PagesFrom(docs, requester, skip, limit) ==
    LET r == controller_list_users(docs, FALSE, requester, skip, limit, 0)
        ids == [k \in 1..Len(r.val.users) |-> r.val.users[k].id]
    IN IF Raised(r) THEN <<>>
       ELSE IF r.val.has_more THEN ids \o PagesFrom(docs, requester, skip + limit, limit)
       ELSE ids

\* C24. With the repository unchanged between calls and holding any mix of
\* active and inactive identities, requesting pages at skip = 0, limit,
\* 2*limit, ... until a response has has_more = false returns every active
\* identity exactly once; in particular has_more is false only when no active
\* identity lies at a position at or beyond skip + limit.  The walk is made
\* for the repositories of at most ManyUsers identities.
C24_PagesCoverActive ==
    (resp.op = "list_users" /\ Succeeded) =>
        /\ (resp.in.skip = 0 /\ Cardinality(users) <= ManyUsers) =>
              LET w == PagesFrom(users, resp.in.requesting_user_id, 0, resp.in.limit)
              IN /\ {w[k] : k \in 1..Len(w)} = {d.id : d \in {x \in users : x.is_active}}
                 /\ Len(w) = ActiveStored
        /\ ~resp.val.has_more =>
              \A d \in users :
                  d.is_active => preceding(users, d) < resp.in.skip + resp.in.limit

\* where the pages do cover: repositories within the count limit in which
\* every identity is active
C24_PagesCoverWhenAllActive ==
    (/\ resp.op = "list_users"
     /\ Succeeded
     /\ Cardinality(users) <= COUNT_LIMIT
     /\ \A d \in users : d.is_active) =>
        /\ (resp.in.skip = 0 /\ Cardinality(users) <= ManyUsers) =>
              LET w == PagesFrom(users, resp.in.requesting_user_id, 0, resp.in.limit)
              IN /\ {w[k] : k \in 1..Len(w)} = {d.id : d \in users}
                 /\ Len(w) = ActiveStored
        /\ ~resp.val.has_more =>
              \A d \in users : preceding(users, d) < resp.in.skip + resp.in.limit

\* a page is answered with has_more = false while an active identity lies
\* beyond it
C24_ActiveLeftOut ==
    /\ resp.op = "list_users"
    /\ Succeeded
    /\ resp.in.skip = 1 /\ resp.in.limit = 1
    /\ ~resp.val.has_more
    /\ \E d \in users : d.is_active /\ preceding(users, d) >= 2

\* the request being answered got as far as asking the repository
AskedStorage ==
    CASE resp.op = "login_user" ->
             WellFormedEmail(resp.in.email) /\ ~pw_blank(resp.in.password)
      [] resp.op = "get_current_user" -> Verifies(resp.in.token, now)
      [] resp.op = "get_user_by_id" ->
             resp.in.user_id # 0 /\ resp.in.requesting_user_id # 0
      [] resp.op = "list_users" ->
             /\ resp.in.requesting_user_id # 0
             /\ resp.in.skip >= 0
             /\ resp.in.limit >= MIN_LIMIT /\ resp.in.limit <= MAX_LIMIT
      [] OTHER -> FALSE

\* C26. When the storage backend raises an error while connected (during
\* lookup by id, lookup by email, or listing), the calling use case or the
\* gate fails with an Infrastructure-kind error; the failure is never turned
\* into a 'record absent' result that the caller sees as InvalidCredentials,
\* NotFound, Unauthenticated, or as a missing requester.
C26_StorageFailureIsInfrastructure ==
    IF resp.op = "none" THEN TRUE
    ELSE (resp.in.failing /\ AskedStorage) =>
            /\ resp.exc # {}
            /\ \A e \in resp.exc : IsInstance(e, "InfrastructureException")

\* what the code does: a request served while the storage raises is answered
\* exactly as if the repository were empty
C26_StorageFailureLooksEmpty ==
    IF resp.op = "none" THEN TRUE
    ELSE resp.in.failing =>
            resp.exc =
               (CASE resp.op = "login_user" ->
                         login_user_execute({}, FALSE, bcrypt_strict, resp.in.email,
                                            resp.in.password, now)
                  [] resp.op = "get_current_user" ->
                         get_current_user({}, FALSE, resp.in.token, now)
                  [] resp.op = "get_user_by_id" ->
                         get_user_by_id_execute({}, FALSE, resp.in.user_id,
                                                resp.in.requesting_user_id, now)
                  [] resp.op = "list_users" ->
                         controller_list_users({}, FALSE, resp.in.requesting_user_id,
                                               resp.in.skip, resp.in.limit, now)).exc

\* the owner of a stored, active identity logs in with the right password
\* while the storage raises, and is told that the credentials are wrong
C26_RightPasswordRefused ==
    /\ resp.op = "login_user"
    /\ resp.in.failing
    /\ \E d \in StoredWithEmail(users, resp.in.email) :
          d.is_active /\ resp.in.password = registered[d.id]
    /\ resp.exc = {InvalidCredentialsException}

====
